---- MODULE Spec2Model ----
(***************************************************************************)
(* A model of the categorization and analytics engine of the Personal     *)
(* Finance Analyzer (src/finance_analyzer).                                *)
(*                                                                         *)
(* Representation.                                                         *)
(*   - A Python str is a TLA+ string; TLC evaluates Len, Head, Tail,       *)
(*     SubSeq and \o on strings, a character being a string of length 1.   *)
(*   - Optional[str] fields: None and "" are both falsy in the code and    *)
(*     are both modelled by "".                                            *)
(*   - A Python dict is a sequence of [key, value] records in insertion    *)
(*     order (dicts iterate in insertion order).                           *)
(*   - Money is an integer number of mills (1/1000 of the currency unit),  *)
(*     so that amounts with three decimals exist; arithmetic is exact      *)
(*     decimal arithmetic and round(x, 2) rounds half to even, as Python's *)
(*     round is documented to do. The binary representation error of       *)
(*     Python floats is not modelled.                                      *)
(***************************************************************************)
EXTENDS Integers, Sequences, FiniteSets, TLC

VARIABLES
    txns,     \* the transaction list the operations work on (List[Transaction])
    op,       \* the name of the last operation applied to txns
    args,     \* the arguments of the last operation
    before,   \* txns as it was when the last operation was called
    result    \* the value the last operation returned

vars == <<txns, op, args, before, result>>

----------------------------------------------------------------------------
(* Generic helpers for sequences, strings and ordered dicts.                *)

Range(s) == {s[i] : i \in 1..Len(s)}

RECURSIVE SumSeq(_)
SumSeq(s) == IF Len(s) = 0 THEN 0 ELSE s[1] + SumSeq(Tail(s))

Abs(x) == IF x < 0 THEN -x ELSE x

Max2(a, b) == IF a >= b THEN a ELSE b

\* All sequences over S of length 0..n.
SeqsUpTo(S, n) == UNION {[1..k -> S] : k \in 0..n}

\* Python: sub in s
Contains(s, sub) ==
    \E i \in 0..(Len(s) - Len(sub)) : SubSeq(s, i + 1, i + Len(sub)) = sub

\* Python truthiness of an Optional[str]
Truthy(s) == s # ""

----------------------------------------------------------------------------
(* Characters: str.lower, string.punctuation, whitespace.                   *)

UpperLetters == "ABCDEFGHIJKLMNOPQRSTUVWXYZ"
LowerLetters == "abcdefghijklmnopqrstuvwxyz"

\* string.punctuation, less the grave accent, which a TLA+ string cannot hold
Punctuation ==
    {"!", "\"", "#", "$", "%", "&", "'", "(", ")", "*", "+", ",", "-", ".",
     "/", ":", ";", "<", "=", ">", "?", "@", "[", "\\", "]", "^", "_",
     "{", "|", "}", "~"}

Whitespace == {" ", "\t", "\n", "\r", "\f"}

Digits == {"0", "1", "2", "3", "4", "5", "6", "7", "8", "9"}

UpperSet == {SubSeq(UpperLetters, i, i) : i \in 1..26}

LowerOf ==
    [c \in UpperSet |->
        LET i == CHOOSE j \in 1..26 : SubSeq(UpperLetters, j, j) = c
        IN  SubSeq(LowerLetters, i, i)]

\* str.lower on one (ASCII) character
LowerChar(c) == IF c \in UpperSet THEN LowerOf[c] ELSE c

RECURSIVE Lower(_)
Lower(s) == IF s = "" THEN "" ELSE LowerChar(Head(s)) \o Lower(Tail(s))

\* str.lstrip() and str.rstrip()
RECURSIVE LStrip(_)
LStrip(s) == IF s # "" /\ Head(s) \in Whitespace THEN LStrip(Tail(s)) ELSE s

RECURSIVE RStrip(_)
RStrip(s) ==
    IF s # "" /\ SubSeq(s, Len(s), Len(s)) \in Whitespace
    THEN RStrip(SubSeq(s, 1, Len(s) - 1)) ELSE s

\* str.strip(): drop leading and trailing whitespace
Strip(s) == RStrip(LStrip(s))

\* re.sub(r"\s+", " ", s): every maximal run of whitespace becomes one space
RECURSIVE CollapseFrom(_, _)
CollapseFrom(s, inRun) ==
    IF s = "" THEN ""
    ELSE IF Head(s) \in Whitespace
         THEN (IF inRun THEN "" ELSE " ") \o CollapseFrom(Tail(s), TRUE)
         ELSE Head(s) \o CollapseFrom(Tail(s), FALSE)

CollapseWs(s) == CollapseFrom(s, FALSE)

\* str.translate(_PUNCT_TABLE): every punctuation character becomes a space
RECURSIVE TranslatePunct(_)
TranslatePunct(s) ==
    IF s = "" THEN ""
    ELSE (IF Head(s) \in Punctuation THEN " " ELSE Head(s)) \o TranslatePunct(Tail(s))

----------------------------------------------------------------------------
(* data_loader.Transaction                                                  *)

Date(y, m, d) == [year |-> y, month |-> m, day |-> d]

Transaction(date, description, amount, category) ==
    [date |-> date, description |-> description, amount |-> amount,
     account |-> "", category |-> category]

----------------------------------------------------------------------------
(* categorizer.py                                                           *)

\* _normalize(text)
_normalize(text) == Strip(CollapseWs(TranslatePunct(Lower(text))))

\* The rule set flattened in declaration order ("for cat, kws in
\* rules.items(): for kw in kws or []"): one [kw, cat] entry per declared
\* keyword, the keyword stripped and lowercased (line 40).
DeclaredKeywords(rules) ==
    LET lens    == [c \in 1..Len(rules) |-> Len(rules[c].kws)]
        Off(c)  == SumSeq(SubSeq(lens, 1, c - 1))
        offs    == [c \in 1..Len(rules) |-> Off(c)]
        CatOf(n) == CHOOSE c \in 1..Len(rules) : offs[c] < n /\ n <= offs[c] + lens[c]
    IN  [n \in 1..SumSeq(lens) |->
            LET c == CatOf(n)
            IN  [kw |-> Lower(Strip(rules[c].kws[n - offs[c]])), cat |-> rules[c].cat]]

\* The value kw_to_cat holds for the keyword first inserted by declaration j:
\* "if kw and kw not in kw_to_cat: kw_to_cat[kw] = cat" keeps the first one.
KwEntryLastWins(decl, j) ==
    LET same == {i \in 1..Len(decl) : decl[i].kw = decl[j].kw}
    IN  decl[CHOOSE i \in same : \A k \in same : k <= i]

KwEntry(decl, j) == decl[j]

\* kw_to_cat after the precomputation loop: the non-empty keywords in the
\* order of their first declaration
kw_to_cat(rules) ==
    LET decl == DeclaredKeywords(rules)
        Inserted(j) == /\ decl[j].kw # ""
                       /\ \A i \in 1..(j - 1) : decl[i].kw # decl[j].kw
        marked == [j \in 1..Len(decl) |-> [e |-> KwEntry(decl, j), ins |-> Inserted(j)]]
        IsIns(m) == m.ins
        kept == SelectSeq(marked, IsIns)
    IN  [n \in 1..Len(kept) |-> kept[n].e]

\* Exact keyword containment: the first entry of kw_to_cat whose keyword is
\* a substring of norm decides; "" stands for chosen = None.
PrimaryMatchLast(k2c, norm) ==
    LET hits == {i \in 1..Len(k2c) : Contains(norm, k2c[i].kw)}
    IN  IF hits = {} THEN ""
        ELSE k2c[CHOOSE i \in hits : \A j \in hits : j <= i].cat

PrimaryMatch(k2c, norm) ==
    LET hits == {i \in 1..Len(k2c) : Contains(norm, k2c[i].kw)}
    IN  IF hits = {} THEN ""
        ELSE k2c[CHOOSE i \in hits : \A j \in hits : i <= j].cat

\* merchant_tokens: the keywords longer than 2 characters, in dict order
merchant_tokens(k2c) ==
    LET IsLong(k) == Len(k) > 2
    IN  SelectSeq([i \in 1..Len(k2c) |-> k2c[i].kw], IsLong)

\* merchant_pattern.search(norm).group(1): the leftmost position at which an
\* alternative matches, and there the first alternative that matches; ""
\* stands for "no match" (every token is longer than 2 characters).
PatternSearch(tokens, norm) ==
    LET At(p) == {i \in 1..Len(tokens) :
                     /\ p + Len(tokens[i]) - 1 <= Len(norm)
                     /\ SubSeq(norm, p, p + Len(tokens[i]) - 1) = tokens[i]}
        pos == {p \in 1..Len(norm) : At(p) # {}}
    IN  IF pos = {} THEN ""
        ELSE LET p == CHOOSE q \in pos : \A r \in pos : q <= r
             IN  tokens[CHOOSE i \in At(p) : \A j \in At(p) : i <= j]

\* kw_to_cat.get(token, None)
KwGet(k2c, token) ==
    IF \E i \in 1..Len(k2c) : k2c[i].kw = token
    THEN k2c[CHOOSE i \in 1..Len(k2c) : k2c[i].kw = token].cat
    ELSE ""

\* Regex fallback (lines 60-63)
RegexFallback(k2c, norm, chosen) ==
    LET tokens == merchant_tokens(k2c)
    IN  IF ~Truthy(chosen) /\ Len(tokens) > 0 /\ PatternSearch(tokens, norm) # ""
        THEN KwGet(k2c, PatternSearch(tokens, norm))
        ELSE chosen

\* Income heuristic and default (lines 65-69)
IncomeOrDefaultGE(chosen, amount, default_category) ==
    LET c == IF ~Truthy(chosen) /\ amount >= 0 THEN "Income" ELSE chosen
    IN  IF Truthy(c) THEN c ELSE default_category

IncomeOrDefaultNone(chosen, amount, default_category) ==
    IF ~Truthy(chosen) /\ amount > 0 THEN "Income" ELSE chosen

IncomeOrDefault(chosen, amount, default_category) ==
    LET c == IF ~Truthy(chosen) /\ amount > 0 THEN "Income" ELSE chosen
    IN  IF Truthy(c) THEN c ELSE default_category

\* The category the loop body computes for an uncategorized transaction
ChooseCategory(t, k2c, default_category) ==
    LET norm   == _normalize(t.description)
        chosen == RegexFallback(k2c, norm, PrimaryMatch(k2c, norm))
    IN  IncomeOrDefault(chosen, t.amount, default_category)

\* One iteration of "for t in txns" (lines 48-69)
CategorizeOneAlways(t, k2c, default_category) ==
    [t EXCEPT !.category = ChooseCategory(t, k2c, default_category)]

CategorizeOne(t, k2c, default_category) ==
    IF Truthy(t.category) THEN t
    ELSE [t EXCEPT !.category = ChooseCategory(t, k2c, default_category)]

\* categorize_transactions: the list after the in-place categorization
categorize_transactions(list, rules, default_category) ==
    LET k2c == kw_to_cat(rules)
    IN  [i \in 1..Len(list) |-> CategorizeOne(list[i], k2c, default_category)]

----------------------------------------------------------------------------
(* config.py                                                                *)

\* config.DEFAULT_RULES, a dict in insertion order
DEFAULT_RULES ==
    <<
      [cat |-> "Income",
       kws |-> <<"payroll", "direct deposit", "salary", "stripe payout", "refund">>],
      [cat |-> "Rent",
       kws |-> <<"apartment", "rent", "landlord">>],
      [cat |-> "Groceries",
       kws |-> <<"whole foods", "trader joe", "kroger", "walmart grocery", "aldi", "heb">>],
      [cat |-> "Dining",
       kws |-> <<"starbucks", "mcdonald", "ubereats", "doordash", "grubhub", "restaurant", "bar">>],
      [cat |-> "Transport",
       kws |-> <<"uber", "lyft", "shell", "exxon", "chevron", "gas", "metro", "transit">>],
      [cat |-> "Utilities",
       kws |-> <<"comcast", "xfinity", "att", "verizon", "electric", "water", "gas co">>],
      [cat |-> "Subscriptions",
       kws |-> <<"netflix", "spotify", "icloud", "google storage", "prime", "hulu">>],
      [cat |-> "Shopping",
       kws |-> <<"amazon", "target", "walmart", "best buy", "ebay">>],
      [cat |-> "Health",
       kws |-> <<"pharmacy", "cvS", "walgreens", "doctor", "dentist", "copay">>],
      [cat |-> "Entertainment",
       kws |-> <<"movie", "theater", "concert", "ticketmaster">>],
      [cat |-> "Travel",
       kws |-> <<"airbnb", "hotel", "delta", "united", "aa", "southwest", "booking">>],
      [cat |-> "Savings",
       kws |-> <<"transfer to savings", "ally", "capital one 360">>],
      [cat |-> "Fees",
       kws |-> <<"fee", "interest charge", "atm fee">>],
      [cat |-> "Other",
       kws |-> <<>>]
    >>

----------------------------------------------------------------------------
(* Inputs of the categorizer specification.                                 *)

MaxCatTxns == 2

ADate == Date(2024, 1, 5)

CatDescriptions ==
    {"Blue Bottle Coffee", "City Gas Co.", "Gas Co. Bar", "PAYROLL\tacme"}

CatAmounts == {-12340, 0, 2500}

\* {"Dining": ["coffee"], "Shopping": ["coffee"]}
FirstWinsRules ==
    << [cat |-> "Dining", kws |-> <<"coffee">>],
       [cat |-> "Shopping", kws |-> <<"coffee">>] >>

\* keywords with blanks, capitals and repetitions across categories
MixedRules ==
    << [cat |-> "Shopping", kws |-> <<"  ", "Bottle">>],
       [cat |-> "Dining", kws |-> <<" COFFEE ", "blue", "City ">>],
       [cat |-> "Cafe", kws |-> <<"coffee", "Blue ", "ba", "city">>],
       [cat |-> "Empty", kws |-> <<>>] >>

CatRuleSets == {<<>>, DEFAULT_RULES, FirstWinsRules, MixedRules}

CatDefaults == {"Other", "Income"}

\* transactions without a category, and transactions categorized upstream
CatTxns ==
    {Transaction(ADate, d, a, "") : d \in CatDescriptions, a \in CatAmounts}
    \cup {Transaction(ADate, "Blue Bottle Coffee", 2500, "Preset"),
          Transaction(ADate, "PAYROLL\tacme", -12340, "Preset")}

NoArgs == [rules |-> <<>>, default_category |-> ""]

InitCat ==
    /\ txns \in SeqsUpTo(CatTxns, MaxCatTxns)
    /\ op = "init"
    /\ args = NoArgs
    /\ before = <<>>
    /\ result = <<>>

\* categorize_transactions(txns, rules, default_category) mutates txns in
\* place and returns None
Categorize(rules, default_category) ==
    /\ txns' = categorize_transactions(txns, rules, default_category)
    /\ op' = "categorize_transactions"
    /\ args' = [rules |-> rules, default_category |-> default_category]
    /\ before' = txns
    /\ result' = <<>>

NextCat == \E rules \in CatRuleSets, dc \in CatDefaults : Categorize(rules, dc)

SpecCat == InitCat /\ [][NextCat]_vars

----------------------------------------------------------------------------
(* Properties of categorize_transactions, stated on the state after a call: *)
(* before is the list the call received, txns the list it left, args its    *)
(* arguments.                                                               *)

Categorized == op = "categorize_transactions"

\* The declarations of the call's rule set whose keyword occurs in norm
Hits(decl, norm) == {j \in 1..Len(decl) : decl[j].kw # "" /\ Contains(norm, decl[j].kw)}

MinOf(S) == CHOOSE x \in S : \A y \in S : x <= y

\* The transactions the call found without a category
Uncategorized == {i \in 1..Len(before) : ~Truthy(before[i].category)}

\* C1: a transaction whose category is already set keeps it, so a call on a
\* list in which every transaction has a category changes nothing, whatever
\* the rules are.
C1_SetCategoryUntouched ==
    Categorized =>
        /\ Len(txns) = Len(before)
        /\ \A i \in 1..Len(before) :
              Truthy(before[i].category) => txns[i].category = before[i].category
        /\ (Uncategorized = {} => txns = before)

\* A call that met a category assigned by an earlier call, and whose own rules
\* would have chosen another one.
C1_Witness ==
    /\ Categorized
    /\ \E i \in 1..Len(before) :
          /\ before[i].category \notin {"", "Preset"}
          /\ ChooseCategory(before[i], kw_to_cat(args.rules), args.default_category)
                # before[i].category
          /\ txns[i].category = before[i].category

\* C2: after the call every transaction has a category; one that matches no
\* keyword and has amount <= 0 has default_category.
C2_EveryTransactionCategorized ==
    Categorized =>
        LET decl == DeclaredKeywords(args.rules)
        IN  \A i \in 1..Len(txns) :
               /\ Truthy(txns[i].category)
               /\ ( /\ i \in Uncategorized
                    /\ Hits(decl, _normalize(before[i].description)) = {}
                    /\ before[i].amount <= 0 )
                  => txns[i].category = args.default_category

\* An uncategorized expense categorized under the empty rule set.
C2_Witness ==
    /\ Categorized
    /\ args.rules = <<>>
    /\ \E i \in Uncategorized :
          before[i].amount <= 0 /\ txns[i].category = args.default_category

\* C3: a keyword declared under several categories (compared stripped and
\* lowercased) resolves to the category that declares it first: a transaction
\* whose description contains that keyword and no other gets that category,
\* and {Dining: [coffee], Shopping: [coffee]} makes "Blue Bottle Coffee" Dining.
C3_FirstDeclaredCategoryWins ==
    Categorized =>
        LET decl == DeclaredKeywords(args.rules)
        IN  \A i \in Uncategorized :
               LET hits == Hits(decl, _normalize(before[i].description))
               IN  /\ (hits # {} /\ \A j, k \in hits : decl[j].kw = decl[k].kw)
                         => txns[i].category = decl[MinOf(hits)].cat
                   /\ (args.rules = FirstWinsRules
                         /\ before[i].description = "Blue Bottle Coffee")
                         => txns[i].category = "Dining"

\* A description containing one keyword that two categories declare, written
\* differently in the two declarations.
C3_Witness ==
    /\ Categorized
    /\ LET decl == DeclaredKeywords(args.rules)
       IN  \E i \in Uncategorized :
              LET hits == Hits(decl, _normalize(before[i].description))
              IN  /\ \E j, k \in hits :
                        /\ decl[j].cat # decl[k].cat
                        /\ \E c \in 1..Len(args.rules) :
                              \E n \in 1..Len(args.rules[c].kws) :
                                 /\ args.rules[c].kws[n] # decl[j].kw
                                 /\ Lower(Strip(args.rules[c].kws[n])) = decl[j].kw
                  /\ \A j, k \in hits : decl[j].kw = decl[k].kw
                  /\ txns[i].category = decl[MinOf(hits)].cat

----------------------------------------------------------------------------
(* analytics.py: rounding, ordered dicts, sorting                           *)

\* round(a / b) for b > 0, to the nearest integer, halves to the even one
RoundDiv(a, b) ==
    LET q == a \div b
        r == a % b
    IN  IF 2 * r < b THEN q
        ELSE IF 2 * r > b THEN q + 1
        ELSE IF q % 2 = 0 THEN q ELSE q + 1

\* round(x, 2) of an amount in mills: a whole number of cents, in mills
Round2Floor(x) == 10 * (x \div 10)

Round2(x) == 10 * RoundDiv(x, 10)

\* The keys of a dict filled by "d[key] += ..." with the keys of the sequence
\* keys, one after the other: the distinct keys in insertion order (the order
\* of first appearance).
FirstSeenKeys(keys) ==
    LET First(i) == \A j \in 1..(i - 1) : keys[j] # keys[i]
        marked == [i \in 1..Len(keys) |-> [k |-> keys[i], first |-> First(i)]]
        IsFirst(m) == m.first
        kept == SelectSeq(marked, IsFirst)
    IN  [n \in 1..Len(kept) |-> kept[n].k]

\* sorted(items, key=lambda kv: kv[1], reverse=True): descending by value,
\* items of equal value in their original order (the sort is stable)
SortByValueDesc(items) ==
    LET Pos(i) == 1 + Cardinality({j \in 1..Len(items) : items[j].value > items[i].value})
                    + Cardinality({j \in 1..(i - 1) : items[j].value = items[i].value})
    IN  [n \in 1..Len(items) |-> items[CHOOSE i \in 1..Len(items) : Pos(i) = n]]

----------------------------------------------------------------------------
(* analytics.py: totals and spend by category                               *)

\* summarize_income_expense
summarize_income_expense(list) ==
    LET income  == SumSeq([i \in 1..Len(list) |->
                       IF list[i].amount > 0 THEN list[i].amount ELSE 0])
        expense == -SumSeq([i \in 1..Len(list) |->
                       IF list[i].amount < 0 THEN list[i].amount ELSE 0])
        net     == income - expense
    IN  [income |-> Round2(income), expense |-> Round2(expense), net |-> Round2(net)]

\* t.category or "Other"
CategoryOrOther(t) == IF Truthy(t.category) THEN t.category ELSE "Other"

IsExpense(t) == t.amount < 0

\* totals[cat] after the loop of spending_by_category
SpendOfRoundedEach(list, cat) ==
    SumSeq([i \in 1..Len(list) |->
        IF IsExpense(list[i]) /\ CategoryOrOther(list[i]) = cat
        THEN Round2(-list[i].amount) ELSE 0])

SpendOf(list, cat) ==
    SumSeq([i \in 1..Len(list) |->
        IF IsExpense(list[i]) /\ CategoryOrOther(list[i]) = cat
        THEN -list[i].amount ELSE 0])

\* spending_by_category: a dict, as the sequence of its items
spending_by_category(list) ==
    LET expenses == SelectSeq(list, IsExpense)
        keys   == FirstSeenKeys([i \in 1..Len(expenses) |-> CategoryOrOther(expenses[i])])
        totals == [n \in 1..Len(keys) |-> [key |-> keys[n], value |-> SpendOf(list, keys[n])]]
        sorted == SortByValueDesc(totals)
    IN  [n \in 1..Len(sorted) |-> [key |-> sorted[n].key, value |-> Round2(sorted[n].value)]]

----------------------------------------------------------------------------
(* Inputs of the totals specification: amounts with three decimals.         *)

MaxTotTxns == 3

TotAmounts == {-1005, -1004, -8, 1004, 3}

TotCategories == {"", "Food", "Other"}

TotTxns == {Transaction(ADate, "Shop", a, c) : a \in TotAmounts, c \in TotCategories}

InitTotals ==
    /\ txns \in SeqsUpTo(TotTxns, MaxTotTxns)
    /\ op = "init"
    /\ args = NoArgs
    /\ before = <<>>
    /\ result = <<>>

SummarizeIncomeExpense ==
    /\ result' = summarize_income_expense(txns)
    /\ op' = "summarize_income_expense"
    /\ UNCHANGED <<txns, args, before>>

SpendingByCategory ==
    /\ result' = spending_by_category(txns)
    /\ op' = "spending_by_category"
    /\ UNCHANGED <<txns, args, before>>

NextTotals == SummarizeIncomeExpense \/ SpendingByCategory

SpecTotals == InitTotals /\ [][NextTotals]_vars

----------------------------------------------------------------------------
(* Properties of the totals.                                                *)

\* C6: the returned totals satisfy net = income - expense exactly, also when
\* amounts carry more than 2 decimals.
C6_NetIsIncomeMinusExpense ==
    op = "summarize_income_expense" => result.net = result.income - result.expense

\* C7: the values of spending_by_category add up to the expense of
\* summarize_income_expense within 0.01 (10 mills) per category of the result;
\* both are 0 when there is no expense transaction.
C7_CategorySpendMatchesExpense ==
    op = "spending_by_category" =>
        LET total   == SumSeq([n \in 1..Len(result) |-> result[n].value])
            expense == summarize_income_expense(txns).expense
        IN  /\ Abs(total - expense) <= 10 * Len(result)
            /\ (\A i \in 1..Len(txns) : ~IsExpense(txns[i])) => (total = 0 /\ expense = 0)

\* Two categories whose rounded spends do not add up to the rounded expense.
C7_Witness ==
    /\ op = "spending_by_category"
    /\ Len(result) >= 2
    /\ SumSeq([n \in 1..Len(result) |-> result[n].value])
          # summarize_income_expense(txns).expense

----------------------------------------------------------------------------
(* analytics.py: recurring payments                                         *)

\* month_key: "YYYY-MM" as the number YYYYMM, which identifies and orders
\* the months as the string does
month_key_with_day(d) == (d.year * 100 + d.month) * 100 + d.day

month_key(d) == d.year * 100 + d.month

\* re.sub(r"\d+", " ", desc): every maximal run of digits becomes one space
RECURSIVE DigitRunsFrom(_, _)
DigitRunsFrom(s, inRun) ==
    IF s = "" THEN ""
    ELSE IF Head(s) \in Digits
         THEN (IF inRun THEN "" ELSE " ") \o DigitRunsFrom(Tail(s), TRUE)
         ELSE Head(s) \o DigitRunsFrom(Tail(s), FALSE)

LowerSet == {SubSeq(LowerLetters, i, i) : i \in 1..26}

\* re.sub(r"[^a-z\s]", " ", desc)
RECURSIVE NonLettersToSpace(_)
NonLettersToSpace(s) ==
    IF s = "" THEN ""
    ELSE (IF Head(s) \in LowerSet \cup Whitespace THEN Head(s) ELSE " ")
         \o NonLettersToSpace(Tail(s))

\* _normalize_description(desc)
_normalize_description(desc) ==
    Strip(CollapseWs(NonLettersToSpace(DigitRunsFrom(Lower(desc), FALSE))))

\* norm = _normalize_description(t.description), without the fallback of line 81
GroupKeyNormOnly(t) == _normalize_description(t.description)

\* norm = _normalize_description(t.description) or t.description.lower().strip()
GroupKey(t) ==
    LET norm == _normalize_description(t.description)
    IN  IF Truthy(norm) THEN norm ELSE Strip(Lower(t.description))

\* sorted(values)
SortAsc(values) ==
    LET Pos(i) == 1 + Cardinality({j \in 1..Len(values) : values[j] < values[i]})
                    + Cardinality({j \in 1..(i - 1) : values[j] = values[i]})
    IN  [n \in 1..Len(values) |-> values[CHOOSE i \in 1..Len(values) : Pos(i) = n]]

\* statistics.median of a non-empty sequence, times 2 (the mean of the two
\* middle values of an even number of values need not be a whole number)
Median2(values) ==
    LET sorted == SortAsc(values)
        n == Len(values)
    IN  IF n % 2 = 1 THEN 2 * sorted[(n + 1) \div 2]
        ELSE sorted[n \div 2] + sorted[n \div 2 + 1]

\* A sequence given by a rule, with its elements computed once
Always(x) == TRUE

Materialize(f) == SelectSeq(f, Always)

\* The first loop of detect_recurring computes norm once per transaction:
\* the expense transactions, each with its group key and its month
Keyed(list) ==
    LET expenses == SelectSeq(list, IsExpense)
    IN  Materialize([i \in 1..Len(expenses) |->
            [t |-> expenses[i], norm |-> GroupKey(expenses[i]),
             month |-> month_key(expenses[i].date)]])

\* month_amounts with the mean of the charges of a month in place of their
\* median
month_amounts_mean(keyed, norm) ==
    LET InGroup(x) == x.norm = norm
        members == SelectSeq(keyed, InGroup)
        months  == FirstSeenKeys([i \in 1..Len(members) |-> members[i].month])
        Amts(m) == LET InMonth(x) == x.month = m
                       xs == SelectSeq(members, InMonth)
                   IN  [i \in 1..Len(xs) |-> -xs[i].t.amount]
    IN  [n \in 1..Len(months) |->
            [month |-> months[n],
             amount |-> RoundDiv(2 * SumSeq(Amts(months[n])), Len(Amts(months[n])))]]

\* by_desc_month[norm] as the sequence of the months of the group, in
\* insertion order, each with the median of its charges: month_amounts.
\* The values are in half mills.
month_amounts(keyed, norm) ==
    LET InGroup(x) == x.norm = norm
        members == SelectSeq(keyed, InGroup)
        months  == FirstSeenKeys([i \in 1..Len(members) |-> members[i].month])
        Amts(m) == LET InMonth(x) == x.month = m
                       xs == SelectSeq(members, InMonth)
                   IN  [i \in 1..Len(xs) |-> -xs[i].t.amount]
    IN  [n \in 1..Len(months) |-> [month |-> months[n], amount |-> Median2(Amts(months[n]))]]

\* display_names[norm] read in insertion order only: the description of the
\* first expense of the group
first_seen_display(keyed, norm) ==
    LET InGroup(x) == x.norm = norm
        members == SelectSeq(keyed, InGroup)
    IN  members[1].t.description

\* display_names[norm].most_common(1)[0][0]: the raw description counted
\* most often in the group, the first inserted one among equals
most_common_display(keyed, norm) ==
    LET InGroup(x) == x.norm = norm
        members == SelectSeq(keyed, InGroup)
        names == FirstSeenKeys([i \in 1..Len(members) |-> members[i].t.description])
        Count(d) == Cardinality({i \in 1..Len(members) : members[i].t.description = d})
        best == CHOOSE n \in 1..Len(names) :
                   /\ \A k \in 1..Len(names) : Count(names[k]) <= Count(names[n])
                   /\ \A k \in 1..(n - 1) : Count(names[k]) < Count(names[n])
    IN  names[best]

\* abs(amount - med) <= tolerance_amount, where med4 is 4 * med, amount2 is
\* 2 * amount (both in mills), tolerance is in percent and
\* tolerance_amount = max(abs(med) * tolerance, 1.0) if med else 1.0
WithinToleranceNoFloor(amount2, med4, tolerance) ==
    100 * Abs(2 * amount2 - med4) <= Abs(med4) * tolerance

\* every month value accepted, whatever its distance from the median
WithinToleranceAlways(amount2, med4, tolerance) == TRUE

WithinTolerance(amount2, med4, tolerance) ==
    LET tolerance_amount400 ==
            IF med4 # 0 THEN Max2(Abs(med4) * tolerance, 400000) ELSE 400000
    IN  100 * Abs(2 * amount2 - med4) <= tolerance_amount400

\* typical_amount = round(sum(accepted) / len(accepted), 2), in mills, of
\* accepted values in half mills; med4 is 4 * med
TypicalAmountMedian(accepted, med4) == 10 * RoundDiv(med4, 40)

TypicalAmount(accepted, med4) == 10 * RoundDiv(SumSeq(accepted), 20 * Len(accepted))

\* One iteration of "for norm_desc, months in by_desc_month.items()":
\* the group is skipped, appends a record, or the division by
\* len(accepted) = 0 raises ZeroDivisionError.
GroupOutcome(keyed, norm, min_months, tolerance) ==
    LET ma       == month_amounts(keyed, norm)
        values   == [n \in 1..Len(ma) |-> ma[n].amount]
        med4     == Median2(values)
        Within(a) == WithinTolerance(a, med4, tolerance)
        accepted == SelectSeq(values, Within)
    IN  IF Len(values) < min_months THEN [kind |-> "skip"]
        ELSE IF Len(accepted) < min_months THEN [kind |-> "skip"]
        ELSE IF Len(accepted) = 0 THEN [kind |-> "raise"]
        ELSE [kind |-> "record",
              display |-> most_common_display(keyed, norm),
              typical |-> TypicalAmount(accepted, med4),
              count |-> Len(accepted)]

\* recurring.sort with the two parts of the key exchanged
SortRecurringByAmountFirst(recs) ==
    LET Before(a, b) == a.typical > b.typical \/ (a.typical = b.typical /\ a.count > b.count)
        Same(a, b) == a.count = b.count /\ a.typical = b.typical
        Pos(i) == 1 + Cardinality({j \in 1..Len(recs) : Before(recs[j], recs[i])})
                    + Cardinality({j \in 1..(i - 1) : Same(recs[j], recs[i])})
    IN  [n \in 1..Len(recs) |-> recs[CHOOSE i \in 1..Len(recs) : Pos(i) = n]]

\* recurring.sort(key=lambda x: (-x[2], -x[1])), a stable sort
SortRecurring(recs) ==
    LET Before(a, b) == a.count > b.count \/ (a.count = b.count /\ a.typical > b.typical)
        Same(a, b) == a.count = b.count /\ a.typical = b.typical
        Pos(i) == 1 + Cardinality({j \in 1..Len(recs) : Before(recs[j], recs[i])})
                    + Cardinality({j \in 1..(i - 1) : Same(recs[j], recs[i])})
    IN  [n \in 1..Len(recs) |-> recs[CHOOSE i \in 1..Len(recs) : Pos(i) = n]]

\* detect_recurring: the list returned, as [raised |-> "", value |-> list],
\* or the exception raised
detect_recurring(list, min_months, tolerance) ==
    LET keyed    == Keyed(list)
        keys     == FirstSeenKeys([i \in 1..Len(keyed) |-> keyed[i].norm])
        outcomes == [n \in 1..Len(keys) |-> GroupOutcome(keyed, keys[n], min_months, tolerance)]
        IsRecord(o) == o.kind = "record"
        recs     == SelectSeq(outcomes, IsRecord)
    IN  IF \E n \in 1..Len(outcomes) : outcomes[n].kind = "raise"
        THEN [raised |-> "ZeroDivisionError", value |-> <<>>]
        ELSE [raised |-> "",
              value |-> SortRecurring([n \in 1..Len(recs) |->
                           [display |-> recs[n].display, typical |-> recs[n].typical,
                            count |-> recs[n].count]])]

----------------------------------------------------------------------------
(* Inputs of the recurring-payment specification: a schedule of charges of  *)
(* two merchants over the months 1..MaxRecMonths of one year, as a list in  *)
(* date order.                                                              *)

MaxRecMonths == 4

\* Merchant A: at most one charge on the 5th of each month, the reference
\* number in the description changing from month to month, and possibly a
\* further charge on the 20th of the first month.
AcmeAmounts == {49800, 50000, 50100, 50500, 100000}

AcmeDescription(m) == IF m % 2 = 1 THEN "PAYPAL *ACME 00391" ELSE "PAYPAL *ACME 00472"

AcmeExtraAmounts == {50500}

\* Merchant B: small charges on the 3rd of the first three months.
GymPatterns == {<<>>, <<2000, 2000, 3000>>, <<2000, 2000, 3100>>, <<2000, 2900, 3100>>}

GymDescription == "Gym 24"

\* The transactions of month m, in date order; 0 stands for "no charge"
RecMonthTxns(m, sched, extra, gym) ==
    (IF m <= Len(gym)
     THEN <<Transaction(Date(2024, m, 3), GymDescription, -gym[m], "")>> ELSE <<>>)
    \o (IF sched[m] # 0
        THEN <<Transaction(Date(2024, m, 5), AcmeDescription(m), -sched[m], "")>> ELSE <<>>)
    \o (IF extra # 0 /\ m = 1
        THEN <<Transaction(Date(2024, m, 20), AcmeDescription(m), -extra, "")>>
        ELSE <<>>)

RECURSIVE RecTxnsUpTo(_, _, _, _)
RecTxnsUpTo(m, sched, extra, gym) ==
    IF m = 0 THEN <<>>
    ELSE RecTxnsUpTo(m - 1, sched, extra, gym) \o RecMonthTxns(m, sched, extra, gym)

RecLists ==
    {RecTxnsUpTo(MaxRecMonths, sched, extra, gym) :
        sched \in [1..MaxRecMonths -> {0} \cup AcmeAmounts],
        extra \in {0} \cup AcmeExtraAmounts, gym \in GymPatterns}

\* (min_months, tolerance in percent); (3, 15) are the defaults
RecParams ==
    {[min_months |-> 3, tolerance |-> 15], [min_months |-> 2, tolerance |-> 15],
     [min_months |-> 0, tolerance |-> 15], [min_months |-> 3, tolerance |-> 0]}

InitRecurring ==
    /\ txns \in RecLists
    /\ op = "init"
    /\ args = NoArgs
    /\ before = <<>>
    /\ result = <<>>

\* One call per input list: detect_recurring reads nothing but its arguments
\* and changes nothing, so a further call would repeat the first.
DetectRecurring(p) ==
    /\ op = "init"
    /\ result' = detect_recurring(txns, p.min_months, p.tolerance)
    /\ op' = "detect_recurring"
    /\ args' = p
    /\ UNCHANGED <<txns, before>>

NextRecurring == \E p \in RecParams : DetectRecurring(p)

SpecRecurring == InitRecurring /\ [][NextRecurring]_vars

----------------------------------------------------------------------------
(* Properties of detect_recurring, stated on the state after a call: txns   *)
(* is the list the call received, args its min_months and tolerance (in     *)
(* percent), result what it returned or raised. The groups, their months    *)
(* and the tolerance window are restated here from the transactions.        *)

RecDone == op = "detect_recurring"

\* The elements of a finite set of integers in increasing order
SeqOfSet(S) == [n \in 1..Cardinality(S) |-> CHOOSE x \in S : Cardinality({y \in S : y <= x}) = n]

\* The calendar month of transaction i, as a number
CalMonth(i) == txns[i].date.year * 12 + txns[i].date.month

\* A record of the merchant groups of txns: for every group key its expense
\* transactions, its distinct calendar months, the per-month values (twice
\* the median of the month's charges), 4 times the median m of these values,
\* and the months whose value lies within max(|m| * tolerance, 1.0) of m.
GroupView(tolerance) ==
    LET key    == Materialize([i \in 1..Len(txns) |-> GroupKey(txns[i])])
        exp    == {i \in 1..Len(txns) : txns[i].amount < 0}
        groups == {key[i] : i \in exp}
        idx    == [g \in groups |-> {i \in exp : key[i] = g}]
        months == [g \in groups |-> {CalMonth(i) : i \in idx[g]}]
        value2 == [g \in groups |-> [m \in months[g] |->
                     LET is == SeqOfSet({i \in idx[g] : CalMonth(i) = m})
                     IN  Median2([n \in 1..Len(is) |-> -txns[is[n]].amount])]]
        med4   == [g \in groups |->
                     LET ms == SeqOfSet(months[g])
                     IN  Median2([n \in 1..Len(ms) |-> value2[g][ms[n]]])]
        window == [g \in groups |->
                     {m \in months[g] :
                        100 * Abs(2 * value2[g][m] - med4[g])
                           <= Max2(Abs(med4[g]) * tolerance, 400000)}]
        rkey   == Materialize([n \in 1..Len(result.value) |->
                        GroupKey([description |-> result.value[n].display])])
    IN  [g \in groups |->
            [idx |-> idx[g], months |-> months[g], value2 |-> value2[g],
             med4 |-> med4[g], window |-> window[g],
             records |-> {n \in 1..Len(result.value) : rkey[n] = g}]]

\* C8: a group whose expenses fall in fewer than min_months distinct months
\* has no record in the output, however many charges it has and however
\* equal their amounts are.
C8_TooFewMonthsNeverReported ==
    RecDone =>
        LET view == GroupView(args.tolerance)
        IN  \A g \in DOMAIN view :
               Cardinality(view[g].months) < args.min_months => view[g].records = {}

\* Three equal charges of one merchant in two months, min_months = 3: the
\* merchant is not reported, while another one is.
C8_Witness ==
    /\ RecDone
    /\ args.min_months = 3
    /\ result.value # <<>>
    /\ LET view == GroupView(args.tolerance)
       IN  \E g \in DOMAIN view :
              /\ Cardinality(view[g].months) = 2
              /\ Cardinality(view[g].idx) >= 3
              /\ \A i, j \in view[g].idx : txns[i].amount = txns[j].amount
              /\ view[g].records = {}

\* C9: a group has a record if and only if at least min_months of its
\* per-month values lie within max(|m| * tolerance, 1.0) of their median m,
\* and the record's month count is the number of values in that window.
C9_RecordIffEnoughMonthsInWindow ==
    RecDone =>
        LET view == GroupView(args.tolerance)
        IN  \A g \in DOMAIN view :
               /\ Cardinality(view[g].window) >= args.min_months <=> view[g].records # {}
               /\ Cardinality(view[g].records) <= 1
               /\ \A n \in view[g].records :
                     result.value[n].count = Cardinality(view[g].window)

\* The same for min_months >= 1, where the division by len(accepted) cannot
\* fail.
C9_ForPositiveMinMonths ==
    (RecDone /\ args.min_months >= 1) => C9_RecordIffEnoughMonthsInWindow

\* A record whose month count is smaller than the number of months of its
\* group, and a group accepted only by the absolute floor of 1.0.
C9_Witness ==
    /\ RecDone
    /\ args.min_months >= 1
    /\ LET view == GroupView(args.tolerance)
       IN  /\ \E g \in DOMAIN view : \E n \in view[g].records :
                 result.value[n].count < Cardinality(view[g].months)
           /\ \E g \in DOMAIN view : \E m \in view[g].window :
                 /\ view[g].records # {}
                 /\ 100 * Abs(2 * view[g].value2[m] - view[g].med4)
                       > Abs(view[g].med4) * args.tolerance

\* C10: the typical amount of a record is the mean of the accepted per-month
\* values rounded to 2 decimals; per-month amounts 50.00, 50.50, 49.80 and
\* 50.10 in 4 months with min_months = 3 and tolerance = 0.15 give the
\* typical amount 50.10 and the month count 4.
C10_TypicalIsMeanOfAccepted ==
    RecDone =>
        LET view == GroupView(args.tolerance)
        IN  \A g \in DOMAIN view :
               LET win == SeqOfSet(view[g].window)
                   sum2 == SumSeq([n \in 1..Len(win) |-> view[g].value2[win[n]]])
               IN  /\ \A n \in view[g].records :
                         result.value[n].typical = 10 * RoundDiv(sum2, 20 * Len(win))
                   /\ ( /\ args = [min_months |-> 3, tolerance |-> 15]
                        /\ Cardinality(view[g].months) = 4
                        /\ {view[g].value2[m] : m \in view[g].months}
                              = {100000, 101000, 99600, 100200} )
                      => \E n \in view[g].records :
                            result.value[n].typical = 50100 /\ result.value[n].count = 4

\* The example of the claim.
C10_Witness ==
    /\ RecDone
    /\ args = [min_months |-> 3, tolerance |-> 15]
    /\ LET view == GroupView(args.tolerance)
       IN  \E g \in DOMAIN view :
              /\ Cardinality(view[g].months) = 4
              /\ {view[g].value2[m] : m \in view[g].months} = {100000, 101000, 99600, 100200}
              /\ \E n \in view[g].records :
                    result.value[n].typical = 50100 /\ result.value[n].count = 4

----------------------------------------------------------------------------
(* Budgets: reports.calculate_budget_usage and analytics.budget_comparison. *)
(* A budgets dict is the sequence of its [category, limit] items; None and  *)
(* the empty dict are both falsy in the code and are both <<>>. A limit is  *)
(* Optional[float]: <<>> for None, <<x>> for the number x (in mills).       *)
(* percent_used is in hundredths of a percent.                              *)

NoLimit == <<>>

Limit(x) == <<x>>

\* spend_per_category.get(category, 0.0) of calculate_budget_usage: the
\* expenses of the category, whatever their month
UsageSpend(list, category) == SpendOf(list, category)

\* The value of percent_used, or the exception the division raises
PercentUsedAlwaysDivide(spent, limit_value) ==
    IF limit_value = 0 THEN [raised |-> "ZeroDivisionError", value |-> 0]
    ELSE IF limit_value > 0
    THEN [raised |-> "", value |-> RoundDiv(spent * 10000, limit_value)]
    ELSE [raised |-> "", value |-> RoundDiv(-spent * 10000, -limit_value)]

PercentUsed(spent, limit_value) ==
    IF limit_value > 0
    THEN [raised |-> "", value |-> RoundDiv(spent * 10000, limit_value)]
    ELSE [raised |-> "", value |-> IF spent > 0 THEN 10000 ELSE 0]

HasLimit(item) == item.limit # NoLimit

calculate_budget_usage(list, budgets) ==
    IF budgets = <<>> THEN [raised |-> "", value |-> <<>>]
    ELSE
        LET items == SelectSeq(budgets, HasLimit)
            Entry(item) ==
                LET limit_value == item.limit[1]
                    spent == Round2(UsageSpend(list, item.category))
                    pct == PercentUsed(spent, limit_value)
                IN  [raised |-> pct.raised,
                     entry |-> [category |-> item.category, spent |-> spent,
                                limit |-> Round2(limit_value), percent_used |-> pct.value]]
            entries == Materialize([n \in 1..Len(items) |-> Entry(items[n])])
        IN  IF \E n \in 1..Len(entries) : entries[n].raised # ""
            THEN [raised |-> "ZeroDivisionError", value |-> <<>>]
            ELSE [raised |-> "", value |-> [n \in 1..Len(entries) |-> entries[n].entry]]

\* per_cat.get(cat, 0.0) of budget_comparison: the expenses of the category
\* in the month current_month
ComparisonSpend(list, current_month, cat) ==
    SumSeq([i \in 1..Len(list) |->
        IF /\ IsExpense(list[i]) /\ month_key(list[i].date) = current_month
           /\ CategoryOrOther(list[i]) = cat
        THEN -list[i].amount ELSE 0])

\* today = next(iter(txns)).date if txns else dt.date.today()
CurrentDateAlwaysToday(list, clock) == clock

CurrentDate(list, clock) == IF Len(list) > 0 THEN list[1].date ELSE clock

\* budget_comparison, clock being the date dt.date.today() returns; limit -
\* actual with limit None raises TypeError
budget_comparison(list, monthly_budgets, clock) ==
    LET current_month == month_key(CurrentDate(list, clock))
        Row(item) ==
            LET actual == Round2(ComparisonSpend(list, current_month, item.category))
            IN  [key |-> item.category, limit |-> Round2(item.limit[1]),
                 actual |-> actual, remaining |-> Round2(item.limit[1] - actual)]
    IN  IF \E n \in 1..Len(monthly_budgets) : ~HasLimit(monthly_budgets[n])
        THEN [raised |-> "TypeError", value |-> <<>>]
        ELSE [raised |-> "",
              value |-> [n \in 1..Len(monthly_budgets) |-> Row(monthly_budgets[n])]]

----------------------------------------------------------------------------
(* Inputs of the budget specification: expenses and income of two           *)
(* categories in two months, limits with three decimals, a limit of 0, a    *)
(* negative limit, a missing limit and a category without any spend.        *)

MaxBudTxns == 3

Jan5 == Date(2024, 1, 5)

Feb5 == Date(2024, 2, 5)

BudAmounts == {-250, -12344, 5000}

BudTxns ==
    {Transaction(d, "Shop", a, c) : d \in {Jan5, Feb5}, a \in BudAmounts, c \in {"", "Food"}}

BudgetItem(category, limit) == [category |-> category, limit |-> limit]

BudgetSets ==
    {<<>>,
     <<BudgetItem("Food", Limit(375))>>,
     <<BudgetItem("Food", Limit(0)), BudgetItem("Other", Limit(30000))>>,
     <<BudgetItem("Rent", NoLimit), BudgetItem("Food", Limit(100000))>>,
     <<BudgetItem("Food", Limit(-1000)), BudgetItem("Travel", Limit(0))>>}

\* The dates dt.date.today() may return
Clocks == {Date(2024, 1, 15), Date(2024, 2, 15)}

InitBudget ==
    /\ txns \in SeqsUpTo(BudTxns, MaxBudTxns)
    /\ op = "init"
    /\ args = NoArgs
    /\ before = <<>>
    /\ result = <<>>

CalculateBudgetUsage(budgets) ==
    /\ result' = calculate_budget_usage(txns, budgets)
    /\ op' = "calculate_budget_usage"
    /\ args' = [budgets |-> budgets]
    /\ UNCHANGED <<txns, before>>

BudgetComparison(budgets, clock) ==
    /\ result' = budget_comparison(txns, budgets, clock)
    /\ op' = "budget_comparison"
    /\ args' = [budgets |-> budgets, clock |-> clock]
    /\ UNCHANGED <<txns, before>>

NextBudget ==
    \/ \E budgets \in BudgetSets : CalculateBudgetUsage(budgets)
    \/ \E budgets \in BudgetSets, clock \in Clocks : BudgetComparison(budgets, clock)

SpecBudget == InitBudget /\ [][NextBudget]_vars

----------------------------------------------------------------------------
(* Properties of the budget functions.                                      *)

\* The month of the first transaction of the input ("the current month")
FirstMonth == <<txns[1].date.year, txns[1].date.month>>

\* The sum of -amount over the expenses of the category in the current month
CurrentMonthSpend(category) ==
    SumSeq([i \in 1..Len(txns) |->
        IF /\ txns[i].amount < 0
           /\ (IF txns[i].category = "" THEN "Other" ELSE txns[i].category) = category
           /\ <<txns[i].date.year, txns[i].date.month>> = FirstMonth
        THEN -txns[i].amount ELSE 0])

\* C11: in the budget-usage output, spent of a category is the sum of
\* -amount over its expenses of the current month only (the month of the
\* first transaction of the input).
C11_SpentIsCurrentMonthSpend ==
    (op = "calculate_budget_usage" /\ txns # <<>>) =>
        \A n \in 1..Len(result.value) :
            result.value[n].spent = Round2(CurrentMonthSpend(result.value[n].category))

\* C12: calculate_budget_usage raises nothing; it returns one entry for
\* every budgeted category with a limit, in the order of the budgets; with
\* limit > 0 percent_used is round(spent / limit * 100, 2), with limit 0 it
\* is 100.0 if spent > 0 and 0.0 if spent is 0.
C12_PercentUsedNeverDividesByZero ==
    op = "calculate_budget_usage" =>
        LET items == SelectSeq(args.budgets, HasLimit)
        IN  /\ result.raised = ""
            /\ Len(result.value) = Len(items)
            /\ \A n \in 1..Len(items) :
                  LET e == result.value[n]
                      limit == items[n].limit[1]
                  IN  /\ e.category = items[n].category
                      /\ limit > 0 => e.percent_used = RoundDiv(e.spent * 10000, limit)
                      /\ (limit = 0 /\ e.spent > 0) => e.percent_used = 10000
                      /\ (limit = 0 /\ e.spent = 0) => e.percent_used = 0

\* A limit of 0 with spend, a limit of 0 without any spend and a positive
\* limit in one call, and a call that skips a missing limit.
C12_Witness ==
    /\ op = "calculate_budget_usage"
    /\ result.raised = ""
    /\ \E n \in 1..Len(result.value) :
          result.value[n].limit = 0 /\ result.value[n].spent > 0
             /\ result.value[n].percent_used = 10000
    /\ \E n \in 1..Len(result.value) :
          result.value[n].limit > 0 /\ result.value[n].spent > 0
             /\ result.value[n].percent_used > 0

\* C13: budget_comparison returns one row for every budgeted category and
\* no other; actual is the spend of the category in the month of the first
\* transaction, remaining = limit - actual on the returned values, and a
\* category without spend in that month has actual 0 and remaining = limit.
C13_RemainingIsLimitMinusActual ==
    (op = "budget_comparison" /\ txns # <<>> /\ result.raised = "") =>
        /\ Len(result.value) = Len(args.budgets)
        /\ \A n \in 1..Len(result.value) :
              LET row == result.value[n]
              IN  /\ row.key = args.budgets[n].category
                  /\ row.actual = Round2(CurrentMonthSpend(row.key))
                  /\ row.remaining = row.limit - row.actual
                  /\ CurrentMonthSpend(row.key) = 0 =>
                        (row.actual = 0 /\ row.remaining = row.limit)

\* The same with the remaining amount as the code computes it: the rounded
\* difference of the limit as given and the rounded actual.
C13_RemainingOfUnroundedLimit ==
    (op = "budget_comparison" /\ txns # <<>> /\ result.raised = "") =>
        /\ Len(result.value) = Len(args.budgets)
        /\ \A n \in 1..Len(result.value) :
              LET row == result.value[n]
              IN  /\ row.key = args.budgets[n].category
                  /\ row.actual = Round2(CurrentMonthSpend(row.key))
                  /\ row.remaining = Round2(args.budgets[n].limit[1] - row.actual)
                  /\ CurrentMonthSpend(row.key) = 0 =>
                        (row.actual = 0 /\ row.remaining = row.limit)

----------------------------------------------------------------------------
(* analytics.top_merchants                                                  *)

\* spend[d] after the loop of top_merchants
MerchantSpend(list, d) ==
    SumSeq([i \in 1..Len(list) |->
        IF IsExpense(list[i]) /\ list[i].description = d THEN -list[i].amount ELSE 0])

\* ranked[:n]
SliceTo(ranked, n) ==
    LET len  == Len(ranked)
        stop == IF n >= 0 THEN (IF n < len THEN n ELSE len)
                ELSE (IF len + n > 0 THEN len + n ELSE 0)
    IN  SubSeq(ranked, 1, stop)

\* top_merchants: the list of (description, total) pairs, as records
top_merchants(list, n) ==
    LET expenses == SelectSeq(list, IsExpense)
        keys   == FirstSeenKeys([i \in 1..Len(expenses) |-> expenses[i].description])
        spend  == [k \in 1..Len(keys) |-> [key |-> keys[k], value |-> MerchantSpend(list, keys[k])]]
        ranked == SliceTo(SortByValueDesc(spend), n)
    IN  [k \in 1..Len(ranked) |-> [key |-> ranked[k].key, value |-> Round2(ranked[k].value)]]

----------------------------------------------------------------------------
(* Inputs of the ranking specification: three merchants, three categories   *)
(* (one of them missing), amounts that differ by less than a cent.          *)

MaxRankTxns == 3

RankAmounts == {-30000, -50000, -50004, 20000}

RankTxns ==
    {Transaction(ADate, d, a, c) : d \in {"A", "B"}, a \in RankAmounts, c \in {"", "Food"}}
    \cup {Transaction(ADate, "C", a, "Other") : a \in RankAmounts}

\* The values of n; 10 is the default
TopNs == {0, 1, 2, 10}

InitRanking ==
    /\ txns \in SeqsUpTo(RankTxns, MaxRankTxns)
    /\ op = "init"
    /\ args = NoArgs
    /\ before = <<>>
    /\ result = <<>>

TopMerchants(n) ==
    /\ result' = top_merchants(txns, n)
    /\ op' = "top_merchants"
    /\ args' = [n |-> n]
    /\ UNCHANGED <<txns, before>>

RankSpendingByCategory ==
    /\ result' = spending_by_category(txns)
    /\ op' = "spending_by_category"
    /\ args' = NoArgs
    /\ UNCHANGED <<txns, before>>

NextRanking == (\E n \in TopNs : TopMerchants(n)) \/ RankSpendingByCategory

SpecRanking == InitRanking /\ [][NextRanking]_vars

----------------------------------------------------------------------------
(* Properties of the rankings. A ranking is a sequence of [key, value]; the *)
(* key of a transaction is its description (top_merchants) or its category, *)
(* "Other" if missing (spending_by_category).                               *)

\* The index of the first expense of txns with the key k
FirstExpense(KeyOf(_), k) ==
    CHOOSE i \in 1..Len(txns) :
        /\ txns[i].amount < 0 /\ KeyOf(txns[i]) = k
        /\ \A j \in 1..(i - 1) : ~(txns[j].amount < 0 /\ KeyOf(txns[j]) = k)

\* The keys of the expenses of txns
ExpenseKeys(KeyOf(_)) == {KeyOf(txns[i]) : i \in {j \in 1..Len(txns) : txns[j].amount < 0}}

\* The total spend of the key k
TotalSpend(KeyOf(_), k) ==
    SumSeq([i \in 1..Len(txns) |->
        IF txns[i].amount < 0 /\ KeyOf(txns[i]) = k THEN -txns[i].amount ELSE 0])

\* One entry per key, each an expense key with its rounded total, in
\* non-increasing order of the returned totals
RankedByTotal(KeyOf(_)) ==
    /\ \A a, b \in 1..Len(result) : a # b => result[a].key # result[b].key
    /\ \A a \in 1..Len(result) :
          /\ result[a].key \in ExpenseKeys(KeyOf)
          /\ result[a].value = Round2(TotalSpend(KeyOf, result[a].key))
    /\ \A a \in 1..(Len(result) - 1) : result[a].value >= result[a + 1].value

\* Entries with equal returned totals are in the order of the first
\* occurrence of their keys in the input
TiesInInputOrder(KeyOf(_)) ==
    \A a, b \in 1..Len(result) :
        (a < b /\ result[a].value = result[b].value) =>
            FirstExpense(KeyOf, result[a].key) < FirstExpense(KeyOf, result[b].key)

\* Entries with equal totals before rounding are in the order of the first
\* occurrence of their keys in the input
UnroundedTiesInInputOrder(KeyOf(_)) ==
    \A a, b \in 1..Len(result) :
        (a < b /\ TotalSpend(KeyOf, result[a].key) = TotalSpend(KeyOf, result[b].key)) =>
            FirstExpense(KeyOf, result[a].key) < FirstExpense(KeyOf, result[b].key)

DescriptionOf(t) == t.description

CategoryKeyOf(t) == IF t.category = "" THEN "Other" ELSE t.category

Min2(a, b) == IF a <= b THEN a ELSE b

\* The spends A = 30, B = 50, C = 50 in that input order
SpendsABC ==
    /\ Len(txns) = 3
    /\ \A i \in 1..3 : txns[i].description = <<"A", "B", "C">>[i]
    /\ \A i \in 1..3 : txns[i].amount = <<-30000, -50000, -50000>>[i]

\* C14: top_merchants(txns, n) returns at most n entries, one per distinct
\* description among the expenses, in non-increasing order of total spend,
\* merchants with equal totals in the order of their first occurrence; for
\* the spends A = 30, B = 50, C = 50 and n = 2 the result is [B, C].
C14_TopMerchantsRanking ==
    op = "top_merchants" =>
        /\ Len(result) = Min2(args.n, Cardinality(ExpenseKeys(DescriptionOf)))
        /\ RankedByTotal(DescriptionOf)
        /\ TiesInInputOrder(DescriptionOf)
        /\ (SpendsABC /\ args.n = 2) =>
              result = <<[key |-> "B", value |-> 50000], [key |-> "C", value |-> 50000]>>

\* The same with ties taken on the totals before rounding, which is what
\* the code sorts by.
C14_RankingOfUnroundedTotals ==
    op = "top_merchants" =>
        /\ Len(result) = Min2(args.n, Cardinality(ExpenseKeys(DescriptionOf)))
        /\ RankedByTotal(DescriptionOf)
        /\ UnroundedTiesInInputOrder(DescriptionOf)
        /\ (SpendsABC /\ args.n = 2) =>
              result = <<[key |-> "B", value |-> 50000], [key |-> "C", value |-> 50000]>>

\* The example of the claim.
C14_Example ==
    /\ op = "top_merchants" /\ SpendsABC /\ args.n = 2
    /\ result = <<[key |-> "B", value |-> 50000], [key |-> "C", value |-> 50000]>>

\* C15: spending_by_category returns one entry per category with at least
\* one expense (a missing category counted under "Other"), income adds
\* nothing, the entries are in non-increasing order of total and categories
\* with equal totals keep the order of their first appearance in the input.
C15_CategoryRanking ==
    (op = "spending_by_category" /\ args = NoArgs) =>
        /\ Len(result) = Cardinality(ExpenseKeys(CategoryKeyOf))
        /\ RankedByTotal(CategoryKeyOf)
        /\ TiesInInputOrder(CategoryKeyOf)

\* The same with ties taken on the totals before rounding.
C15_RankingOfUnroundedTotals ==
    (op = "spending_by_category" /\ args = NoArgs) =>
        /\ Len(result) = Cardinality(ExpenseKeys(CategoryKeyOf))
        /\ RankedByTotal(CategoryKeyOf)
        /\ UnroundedTiesInInputOrder(CategoryKeyOf)

----------------------------------------------------------------------------
(* analytics.monthly_totals                                                 *)

\* months[m] after the loop of monthly_totals: income takes the amounts > 0,
\* expense all the others, net is income - expense of the sums
MonthBucket(list, m) ==
    LET income  == SumSeq([i \in 1..Len(list) |->
                       IF month_key(list[i].date) = m /\ list[i].amount > 0
                       THEN list[i].amount ELSE 0])
        expense == SumSeq([i \in 1..Len(list) |->
                       IF month_key(list[i].date) = m /\ ~(list[i].amount > 0)
                       THEN -list[i].amount ELSE 0])
    IN  [income |-> income, expense |-> expense, net |-> income - expense]

\* monthly_totals: a dict in ascending order of the month keys, every value
\* rounded
monthly_totals(list) ==
    LET keys   == FirstSeenKeys([i \in 1..Len(list) |-> month_key(list[i].date)])
        sorted == SortAsc(keys)
    IN  [n \in 1..Len(sorted) |->
            LET vals == MonthBucket(list, sorted[n])
            IN  [key |-> sorted[n], income |-> Round2(vals.income),
                 expense |-> Round2(vals.expense), net |-> Round2(vals.net)]]

----------------------------------------------------------------------------
(* Inputs of the monthly specification: two days of one month, the next     *)
(* month and the same month of another year, in any order; amounts with     *)
(* three decimals and a zero amount.                                        *)

MaxMonTxns == 3

MonDates == {Date(2024, 1, 5), Date(2024, 1, 20), Date(2024, 2, 5), Date(2023, 1, 5)}

MonAmounts == {1004, -8, 0, -2500}

MonTxns == {Transaction(d, "Shop", a, "") : d \in MonDates, a \in MonAmounts}

InitMonthly ==
    /\ txns \in SeqsUpTo(MonTxns, MaxMonTxns)
    /\ op = "init"
    /\ args = NoArgs
    /\ before = <<>>
    /\ result = <<>>

MonthlyTotals ==
    /\ result' = monthly_totals(txns)
    /\ op' = "monthly_totals"
    /\ UNCHANGED <<txns, args, before>>

NextMonthly == MonthlyTotals

SpecMonthly == InitMonthly /\ [][NextMonthly]_vars

----------------------------------------------------------------------------
(* Properties of monthly_totals.                                            *)

\* The calendar year and month of a date
YearMonth(d) == <<d.year, d.month>>

\* The transactions of txns of the year and month ym
InYearMonth(ym) == {i \in 1..Len(txns) : YearMonth(txns[i].date) = ym}

\* The year and month of a bucket key
YearMonthOfKey(key) == <<key \div 100, key % 100>>

\* One bucket per (year, month) of the input, in ascending chronological
\* order, with the rounded sums of the positive and of the negative amounts
MonthlyBuckets ==
    /\ {YearMonthOfKey(result[n].key) : n \in 1..Len(result)}
          = {YearMonth(txns[i].date) : i \in 1..Len(txns)}
    /\ \A a, b \in 1..Len(result) :
          a < b =>
             LET x == YearMonthOfKey(result[a].key)
                 y == YearMonthOfKey(result[b].key)
             IN  x[1] < y[1] \/ (x[1] = y[1] /\ x[2] < y[2])
    /\ \A n \in 1..Len(result) :
          LET is == InYearMonth(YearMonthOfKey(result[n].key))
          IN  /\ result[n].income = Round2(SumSeq([i \in 1..Len(txns) |->
                    IF i \in is /\ txns[i].amount > 0 THEN txns[i].amount ELSE 0]))
              /\ result[n].expense = Round2(SumSeq([i \in 1..Len(txns) |->
                    IF i \in is /\ txns[i].amount < 0 THEN -txns[i].amount ELSE 0]))

\* C16: monthly_totals returns one bucket per distinct (year, month) of the
\* input, in ascending chronological order; income and expense of a bucket
\* are the sums of the positive and negative amounts of the month, and the
\* net of every bucket equals its income minus its expense.
C16_MonthlyBucketsAndNet ==
    op = "monthly_totals" =>
        /\ MonthlyBuckets
        /\ \A n \in 1..Len(result) : result[n].net = result[n].income - result[n].expense

\* The same with the net as the code computes it: the rounded difference of
\* the sums before rounding.
C16_NetOfUnroundedSums ==
    op = "monthly_totals" =>
        /\ MonthlyBuckets
        /\ \A n \in 1..Len(result) :
              LET is == InYearMonth(YearMonthOfKey(result[n].key))
              IN  result[n].net = Round2(SumSeq([i \in 1..Len(txns) |->
                                     IF i \in is THEN txns[i].amount ELSE 0]))

----------------------------------------------------------------------------
(* Inputs of the permutation specification: every aggregate is applied to a *)
(* list and to a permutation of it.                                         *)

MaxPermTxns == 3

PermTxns ==
    {Transaction(d, desc, a, c) :
        d \in {Jan5, Feb5}, desc \in {"A", "B"}, a \in {-50000, 20000}, c \in {"", "Food"}}

\* The permutations of 1..n
Perms(n) == {p \in [1..n -> 1..n] : \A i, j \in 1..n : p[i] = p[j] => i = j}

Permute(list, p) == [i \in 1..Len(list) |-> list[p[i]]]

\* (min_months, tolerance in percent) of detect_recurring; (3, 15) are the
\* defaults
PermRecParams == {[min_months |-> 3, tolerance |-> 15], [min_months |-> 1, tolerance |-> 15]}

InitPerm ==
    /\ txns \in SeqsUpTo(PermTxns, MaxPermTxns)
    /\ op = "init"
    /\ args = NoArgs
    /\ before = <<>>
    /\ result = <<>>

\* One aggregate applied to txns and to its permutation by p: before is the
\* permuted list, result the two values returned
OnBoth(name, p, a, onList, onPermuted) ==
    /\ op = "init"
    /\ op' = name
    /\ args' = a
    /\ before' = Permute(txns, p)
    /\ result' = [list |-> onList, permuted |-> onPermuted]
    /\ UNCHANGED txns

PermSummarize(p) ==
    OnBoth("summarize_income_expense", p, NoArgs,
           summarize_income_expense(txns), summarize_income_expense(Permute(txns, p)))

PermSpendingByCategory(p) ==
    OnBoth("spending_by_category", p, NoArgs,
           spending_by_category(txns), spending_by_category(Permute(txns, p)))

PermMonthlyTotals(p) ==
    OnBoth("monthly_totals", p, NoArgs,
           monthly_totals(txns), monthly_totals(Permute(txns, p)))

PermTopMerchants(p) ==
    OnBoth("top_merchants", p, [n |-> 10],
           top_merchants(txns, 10), top_merchants(Permute(txns, p), 10))

PermDetectRecurring(p, q) ==
    OnBoth("detect_recurring", p, q,
           detect_recurring(txns, q.min_months, q.tolerance),
           detect_recurring(Permute(txns, p), q.min_months, q.tolerance))

NextPerm ==
    \/ \E p \in Perms(Len(txns)) : PermSummarize(p)
    \/ \E p \in Perms(Len(txns)) : PermSpendingByCategory(p)
    \/ \E p \in Perms(Len(txns)) : PermMonthlyTotals(p)
    \/ \E p \in Perms(Len(txns)) : PermTopMerchants(p)
    \/ \E p \in Perms(Len(txns)), q \in PermRecParams : PermDetectRecurring(p, q)

SpecPerm == InitPerm /\ [][NextPerm]_vars

----------------------------------------------------------------------------
(* Order-independence of the aggregates.                                    *)

\* C17: every aggregate returns the same result, with the same entries in
\* the same order, on a transaction list and on any permutation of it.
C17_AggregatesOrderIndependent ==
    op # "init" => result.list = result.permuted

\* The same for the two aggregates whose output order does not depend on
\* insertion order.
C17_TotalsOrderIndependent ==
    op \in {"summarize_income_expense", "monthly_totals"} => result.list = result.permuted

----------------------------------------------------------------------------
(* reports.build_summary                                                    *)

\* The defaults of detect_recurring (tolerance 0.15, in percent) and the
\* number of merchants build_summary asks for
DefaultMinMonths == 3

DefaultTolerance == 15

SummaryTopN == 10

\* The summary dict as a function on its keys, or the exception raised by a
\* function build_summary calls. clock is the date dt.date.today() returns.
build_summary(list, budgets, clock) ==
    LET with_status(summary, status) ==
            IF budgets # <<>> THEN summary @@ [budget_status |-> status.value]
            ELSE summary
        summary_of(recurring, status, usage) ==
            IF recurring.raised # "" THEN [raised |-> recurring.raised, value |-> <<>>]
            ELSE IF budgets # <<>> /\ status.raised # ""
            THEN [raised |-> status.raised, value |-> <<>>]
            ELSE IF usage.raised # "" THEN [raised |-> usage.raised, value |-> <<>>]
            ELSE [raised |-> "",
                  value |-> with_status([totals |-> summarize_income_expense(list),
                                         category_spend |-> spending_by_category(list),
                                         monthly |-> monthly_totals(list),
                                         top_merchants |-> top_merchants(list, SummaryTopN),
                                         recurring |-> recurring.value], status)
                            @@ [budget_usage |-> usage.value]]
    IN  summary_of(detect_recurring(list, DefaultMinMonths, DefaultTolerance),
                   budget_comparison(list, budgets, clock),
                   calculate_budget_usage(list, budgets))

----------------------------------------------------------------------------
(* Inputs of the summary specification: a sequence of build_summary calls,  *)
(* each with its transaction list, its budgets and the date of the clock at *)
(* the time of the call. In this specification txns is the list of the last *)
(* call and before is the log of the calls made before it.                  *)

MaxCalls == 3

MaxSumTxns == 2

SumTxns == {Transaction(Jan5, "A", -50000, "Food"), Transaction(Feb5, "B", -20004, "")}

SumBudgets == {<<>>, <<BudgetItem("Food", Limit(100000)), BudgetItem("Other", Limit(0))>>}

InitSummary ==
    /\ txns = <<>>
    /\ op = "init"
    /\ args = NoArgs
    /\ before = <<>>
    /\ result = <<>>

BuildSummary(list, budgets, clock) ==
    /\ Len(before) < MaxCalls - 1 \/ op = "init"
    /\ before' = IF op = "init" THEN <<>>
                 ELSE Append(before, [txns |-> txns, budgets |-> args.budgets,
                                      clock |-> args.clock, summary |-> result])
    /\ txns' = list
    /\ op' = "build_summary"
    /\ args' = [budgets |-> budgets, clock |-> clock]
    /\ result' = build_summary(list, budgets, clock)

NextSummary ==
    \E list \in SeqsUpTo(SumTxns, MaxSumTxns), budgets \in SumBudgets, clock \in Clocks :
        BuildSummary(list, budgets, clock)

SpecSummary == InitSummary /\ [][NextSummary]_vars

----------------------------------------------------------------------------
(* Properties of build_summary.                                             *)

SummaryDone == op = "build_summary" /\ result.raised = ""

\* The five aggregates are in the summary, each the value of its function
AggregatesInSummary ==
    /\ {"totals", "category_spend", "monthly", "top_merchants", "recurring"}
          \subseteq DOMAIN result.value
    /\ result.value.totals = summarize_income_expense(txns)
    /\ result.value.category_spend = spending_by_category(txns)
    /\ result.value.monthly = monthly_totals(txns)
    /\ result.value.top_merchants = top_merchants(txns, 10)
    /\ result.value.recurring = detect_recurring(txns, 3, 15).value

\* C18: build_summary returns totals, category_spend, monthly, top_merchants
\* and recurring, each equal to its analytics function on the same
\* transactions; budget_status and budget_usage are in the summary only if
\* budgets are supplied.
C18_BudgetKeysOnlyWithBudgets ==
    SummaryDone =>
        /\ AggregatesInSummary
        /\ args.budgets = <<>> =>
              /\ "budget_status" \notin DOMAIN result.value
              /\ "budget_usage" \notin DOMAIN result.value

\* What the code does: budget_status is in the summary exactly if budgets
\* are supplied, budget_usage always, empty without budgets.
C18_BudgetUsageAlwaysPresent ==
    SummaryDone =>
        /\ AggregatesInSummary
        /\ "budget_status" \in DOMAIN result.value <=> args.budgets # <<>>
        /\ "budget_usage" \in DOMAIN result.value
        /\ args.budgets = <<>> => result.value.budget_usage = <<>>

\* C19: two calls of build_summary with equal transaction lists and equal
\* budgets return equal summaries, whatever calls were made in between and
\* whatever the date of the clock is, the empty transaction list included.
C19_BuildSummaryDeterministic ==
    op = "build_summary" =>
        \A i \in 1..Len(before) :
            (before[i].txns = txns /\ before[i].budgets = args.budgets) =>
                before[i].summary = result

\* Two calls with an empty list and the same budgets on different dates,
\* and a call with other transactions in between.
C19_Witness ==
    /\ op = "build_summary"
    /\ Len(before) = 2
    /\ txns = <<>> /\ args.budgets # <<>>
    /\ before[1].txns = txns /\ before[1].budgets = args.budgets
    /\ before[1].clock # args.clock
    /\ before[2].txns # <<>>
    /\ "budget_status" \in DOMAIN result.value

----------------------------------------------------------------------------
(* Error states of detect_recurring, under the recurring-payment            *)
(* specification.                                                           *)

\* C20: detect_recurring raises nothing: for every transaction list, every
\* tolerance >= 0 and every min_months, 0 included, it returns a list; a
\* group with no accepted month is skipped.
C20_DetectRecurringNeverRaises ==
    op = "detect_recurring" => result.raised = ""

\* The same for min_months >= 1, where an accepted set that is not skipped
\* has at least one element.
C20_NoRaiseForPositiveMinMonths ==
    (op = "detect_recurring" /\ args.min_months >= 1) => result.raised = ""

----------------------------------------------------------------------------
(* Further properties of detect_recurring, under the recurring-payment      *)
(* specification.                                                           *)

\* C21: the list returned by detect_recurring is sorted by month count
\* descending and, among equal month counts, by typical amount descending.
C21_SortedByCountThenAmount ==
    RecDone =>
        \A n \in 1..(Len(result.value) - 1) :
            LET a == result.value[n]
                b == result.value[n + 1]
            IN  a.count > b.count \/ (a.count = b.count /\ a.typical >= b.typical)

\* Two records, the one with more months first although its typical amount
\* is the smaller one.
C21_Witness ==
    /\ RecDone
    /\ Len(result.value) = 2
    /\ result.value[1].count > result.value[2].count
    /\ result.value[1].typical < result.value[2].typical

----------------------------------------------------------------------------
(* Inputs of the display-name specification: one merchant written in two    *)
(* ways, charged or refunded in two months, in any order.                   *)

MaxDispTxns == 4

DispDescriptions == {"ACME 1", "Acme 2"}

DispTxns ==
    {Transaction(d, desc, a, "") :
        d \in {Jan5, Feb5}, desc \in DispDescriptions, a \in {-10000, 10000}}

DispParams == {[min_months |-> 1, tolerance |-> 15], [min_months |-> 2, tolerance |-> 15]}

InitDisplay ==
    /\ txns \in SeqsUpTo(DispTxns, MaxDispTxns)
    /\ op = "init"
    /\ args = NoArgs
    /\ before = <<>>
    /\ result = <<>>

NextDisplay == \E p \in DispParams : DetectRecurring(p)

SpecDisplay == InitDisplay /\ [][NextDisplay]_vars

\* The number of expense transactions of txns with the description d
ExpenseCount(d) == Cardinality({i \in 1..Len(txns) : txns[i].amount < 0 /\ txns[i].description = d})

\* The index of the first expense transaction of txns with the description d
FirstExpenseOf(d) ==
    CHOOSE i \in 1..Len(txns) :
        /\ txns[i].amount < 0 /\ txns[i].description = d
        /\ \A j \in 1..(i - 1) : ~(txns[j].amount < 0 /\ txns[j].description = d)

\* C22: the display description of a record is the raw description that
\* occurs most often among the expense transactions of its group, counting
\* transactions and not months; among descriptions with the highest count
\* it is the one seen first in the input.
C22_DisplayIsMostFrequentDescription ==
    RecDone =>
        LET view == GroupView(args.tolerance)
        IN  \A g \in DOMAIN view : \A n \in view[g].records :
               LET display == result.value[n].display
                   names   == {txns[i].description : i \in view[g].idx}
               IN  /\ display \in names
                   /\ \A d \in names :
                         \/ ExpenseCount(d) < ExpenseCount(display)
                         \/ /\ ExpenseCount(d) = ExpenseCount(display)
                            /\ FirstExpenseOf(display) <= FirstExpenseOf(d)

\* The description of the record is not the first one of the input, and it
\* has more transactions than the other one in the same number of months.
C22_Witness ==
    /\ RecDone
    /\ Len(result.value) = 1
    /\ txns[1].amount < 0
    /\ txns[1].description # result.value[1].display
    /\ \A i \in 1..Len(txns) : txns[i].amount < 0 => txns[i].date = Jan5

----------------------------------------------------------------------------
(* Inputs of the same-month specification: one merchant charged up to       *)
(* MaxSameTxns times on two days of one month and in the next month;        *)
(* detect_recurring is applied to the list and to the list with one more    *)
(* charge of the merchant in a month it already has.                        *)

MaxSameTxns == 3

SameAmounts == {-2000, -2400, -3000}

SameTxns ==
    {Transaction(d, "Gym 24", a, "") : d \in {Jan5, Date(2024, 1, 20), Feb5}, a \in SameAmounts}

SameParams == {[min_months |-> 1, tolerance |-> 15], [min_months |-> 2, tolerance |-> 15]}

InitSame ==
    /\ txns \in SeqsUpTo(SameTxns, MaxSameTxns)
    /\ op = "init"
    /\ args = NoArgs
    /\ before = <<>>
    /\ result = <<>>

\* The list with the transaction t inserted after its first k elements
InsertAt(list, k, t) == SubSeq(list, 1, k) \o <<t>> \o SubSeq(list, k + 1, Len(list))

\* detect_recurring on txns and on txns with the charge extra inserted after
\* k elements: before is the longer list, result the two values returned
DetectWithExtraCharge(p, k, extra) ==
    /\ op = "init"
    /\ op' = "detect_recurring_extra"
    /\ args' = [min_months |-> p.min_months, tolerance |-> p.tolerance, extra |-> extra]
    /\ before' = InsertAt(txns, k, extra)
    /\ result' = [base |-> detect_recurring(txns, p.min_months, p.tolerance),
                  extended |-> detect_recurring(InsertAt(txns, k, extra),
                                                p.min_months, p.tolerance)]
    /\ UNCHANGED txns

NextSame ==
    \/ \E p \in SameParams : DetectRecurring(p)
    \/ \E p \in SameParams, k \in 0..Len(txns), extra \in SameTxns :
          DetectWithExtraCharge(p, k, extra)

SpecSame == InitSame /\ [][NextSame]_vars

----------------------------------------------------------------------------
(* Properties of the per-month values.                                      *)

\* The expenses of txns of the merchant and calendar month of the charge t
SameMerchantAndMonth(t) ==
    {i \in 1..Len(txns) :
        /\ txns[i].amount < 0
        /\ GroupKey(txns[i]) = GroupKey(t)
        /\ txns[i].date.year = t.date.year /\ txns[i].date.month = t.date.month}

\* The charge t equals the median of the charges of its merchant and month
\* in txns
EqualsMonthMedian(t) ==
    LET is == SeqOfSet(SameMerchantAndMonth(t))
    IN  /\ Len(is) > 0
        /\ 2 * (-t.amount) = Median2([n \in 1..Len(is) |-> -txns[is[n]].amount])

\* The (typical, count) pairs of the records of the merchant of t in a result
RecordsOfMerchant(res, t) ==
    {[typical |-> res.value[n].typical, count |-> res.value[n].count] :
        n \in {m \in 1..Len(res.value) :
                  GroupKey([description |-> res.value[m].display]) = GroupKey(t)}}

\* C23: the expenses of one merchant inside one month give one per-month
\* value, the median of their amounts: several charges in one month count as
\* one month toward min_months, and one more charge in a month, equal to the
\* median of that month, changes neither the month count nor the typical
\* amount of the record.
C23_SameMonthChargesCountOnce ==
    /\ RecDone =>
          LET view == GroupView(args.tolerance)
          IN  \A g \in DOMAIN view :
                 /\ Cardinality(view[g].months) < args.min_months => view[g].records = {}
                 /\ \A n \in view[g].records :
                       result.value[n].count <= Cardinality(view[g].months)
    /\ (op = "detect_recurring_extra" /\ EqualsMonthMedian(args.extra)) =>
          /\ result.base.raised = result.extended.raised
          /\ RecordsOfMerchant(result.base, args.extra)
                = RecordsOfMerchant(result.extended, args.extra)

\* Three charges in one month, not all equal, and a fourth one equal to their
\* median: one record with the month count 1 before and after.
C23_Witness ==
    /\ op = "detect_recurring_extra"
    /\ EqualsMonthMedian(args.extra)
    /\ Cardinality(SameMerchantAndMonth(args.extra)) = 3
    /\ \E i, j \in SameMerchantAndMonth(args.extra) : txns[i].amount # txns[j].amount
    /\ RecordsOfMerchant(result.extended, args.extra) # {}
    /\ \A r \in RecordsOfMerchant(result.extended, args.extra) : r.count = 1

----------------------------------------------------------------------------
(* Inputs for the grouping key: one or two expenses whose descriptions are  *)
(* spellings of a merchant, or hold no letter at all.                       *)

MaxKeyTxns == 2

KeyDescriptions ==
    {"PAYPAL *ACME 00391", "PAYPAL *ACME 00472", "paypal  acme",
     "WAL-MART", "WALMART", "1234", " 1234 ", "#77", "  "}

KeyTxns ==
    {Transaction(d, s, -10000, "") : d \in {Jan5, Feb5}, s \in KeyDescriptions}

KeyParams == {[min_months |-> 1, tolerance |-> 15], [min_months |-> 2, tolerance |-> 15]}

InitKeys ==
    /\ txns \in SeqsUpTo(KeyTxns, MaxKeyTxns)
    /\ op = "init"
    /\ args = NoArgs
    /\ before = txns
    /\ result = <<>>

NextKeys == \E p \in KeyParams : DetectRecurring(p)

SpecKeys == InitKeys /\ [][NextKeys]_vars

----------------------------------------------------------------------------
(* Claims about the grouping key.                                           *)

\* detect_recurring has run on two expenses
KeyPair == RecDone /\ Len(txns) = 2

\* The two transactions were grouped together, as the output shows it: with
\* min_months = 1 there is one record and it counts the distinct months of
\* both; with min_months = 2 there is a record exactly when the months
\* differ, and it counts both.
PairGrouped ==
    LET months == {CalMonth(1), CalMonth(2)}
    IN  IF args.min_months = 1
        THEN Len(result.value) = 1 /\ result.value[1].count = Cardinality(months)
        ELSE Cardinality(months) = 2 =>
                 Len(result.value) = 1 /\ result.value[1].count = 2

\* With min_months = 2 and one month nothing is reported either way.
PairObservable == args.min_months = 1 \/ CalMonth(1) # CalMonth(2)

HasLetter(d) == \E i \in 1..Len(d) : LowerChar(SubSeq(d, i, i)) \in LowerSet

RECURSIVE DropChars(_, _)
DropChars(s, S) ==
    IF s = "" THEN ""
    ELSE (IF Head(s) \in S THEN "" ELSE Head(s)) \o DropChars(Tail(s), S)

\* A description without its digits and punctuation, in lower case, with
\* every run of whitespace one space and none at the ends.
WithoutDigitsPunct(d) == Strip(CollapseWs(DropChars(Lower(d), Digits \cup Punctuation)))

\* The words of a description: its maximal runs of letters, in lower case.
RECURSIVE WordsFrom(_, _)
WordsFrom(s, cur) ==
    IF s = "" THEN (IF cur = "" THEN <<>> ELSE <<cur>>)
    ELSE IF LowerChar(Head(s)) \in LowerSet
         THEN WordsFrom(Tail(s), cur \o LowerChar(Head(s)))
         ELSE (IF cur = "" THEN <<>> ELSE <<cur>>) \o WordsFrom(Tail(s), "")

Words(d) == WordsFrom(d, "")

DigitsOf(s) == DropChars(s, {SubSeq(s, i, i) : i \in 1..Len(s)} \ Digits)

\* C24: two descriptions (with letters) that differ only in digits,
\* punctuation, letter case or amount of whitespace fall in the same
\* recurring group, and their months are counted together.
C24_DigitsPunctCaseSpaceIgnored ==
    (KeyPair /\ PairObservable) =>
        LET d1 == txns[1].description  d2 == txns[2].description
        IN  (HasLetter(d1) /\ HasLetter(d2)
             /\ WithoutDigitsPunct(d1) = WithoutDigitsPunct(d2)) => PairGrouped

\* C24, as the code has it: two descriptions with letters fall in the same
\* group exactly when they have the same words, whatever digits, punctuation
\* and whitespace stand between and around the words; and the categorizer's
\* normalization keeps every digit.
C24_SameWordsSameGroup ==
    /\ (KeyPair /\ PairObservable) =>
           LET d1 == txns[1].description  d2 == txns[2].description
           IN  (HasLetter(d1) /\ HasLetter(d2)) =>
                   (PairGrouped <=> Words(d1) = Words(d2))
    /\ \A i \in 1..Len(txns) :
           DigitsOf(_normalize(txns[i].description)) = DigitsOf(txns[i].description)
    /\ Contains(_normalize("costco #1234"), "costco")

\* C25: two descriptions without any letter are grouped together exactly
\* when they are equal after lower-casing and trimming, so that distinct
\* digit-only descriptions are never merged.
C25_FallbackKeyIsLoweredTrimmed ==
    (KeyPair /\ PairObservable) =>
        LET d1 == txns[1].description  d2 == txns[2].description
        IN  (~HasLetter(d1) /\ ~HasLetter(d2)) =>
                (PairGrouped <=> Strip(Lower(d1)) = Strip(Lower(d2)))

\* Two digit-only descriptions that differ were run with min_months = 1 and
\* gave two records.
C25_Witness ==
    /\ KeyPair /\ args.min_months = 1
    /\ txns[1].description = "1234" /\ txns[2].description = "#77"
    /\ Len(result.value) = 2

----------------------------------------------------------------------------
(* Inputs for the regex fallback: the rule sets of SpecCat and one, as      *)
(* AppConfig.load accepts it from a JSON file, with a category whose name   *)
(* is the empty string.                                                     *)

MaxRegexTxns == 2

\* {"": ["shop"], "Food": ["coffee shop"]}
EmptyNameRules ==
    << [cat |-> "", kws |-> <<"shop">>],
       [cat |-> "Food", kws |-> <<"coffee shop">>] >>

RegexRuleSets == CatRuleSets \cup {EmptyNameRules}

RegexTxns ==
    {Transaction(ADate, d, a, "") :
        d \in CatDescriptions \cup {"Coffee Shop #12"}, a \in CatAmounts}

InitRegex ==
    /\ txns \in SeqsUpTo(RegexTxns, MaxRegexTxns)
    /\ op = "init"
    /\ args = NoArgs
    /\ before = <<>>
    /\ result = <<>>

NextRegex == \E rules \in RegexRuleSets, dc \in CatDefaults : Categorize(rules, dc)

SpecRegex == InitRegex /\ [][NextRegex]_vars

----------------------------------------------------------------------------
(* Claims about the regex fallback.                                         *)

\* The category given by a categorizer made of the substring scan over the
\* keywords in declaration order, the income heuristic and the default.
ScanOnlyCategory(t, rules, default_category) ==
    LET norm    == _normalize(t.description)
        decl    == DeclaredKeywords(rules)
        hits    == Hits(decl, norm)
        scanned == IF hits = {} THEN "" ELSE decl[MinOf(hits)].cat
    IN  IF Truthy(scanned) THEN scanned
        ELSE IF t.amount > 0 THEN "Income" ELSE default_category

\* C26: the regex fallback never decides a category: for every rule set and
\* transaction list, every transaction gets the category that the substring
\* scan, the income heuristic and the default alone give it.
C26_RegexFallbackNeverDecides ==
    Categorized =>
        \A i \in Uncategorized :
            txns[i].category =
                ScanOnlyCategory(before[i], args.rules, args.default_category)

\* C26, as the code has it: when the scan finds no keyword the alternation
\* matches nothing, and the fallback decides nothing for a rule set in
\* which every category has a name.
C26_NoScanHitNoRegexMatch ==
    Categorized =>
        \A i \in Uncategorized :
            LET norm == _normalize(before[i].description)
                k2c  == kw_to_cat(args.rules)
            IN  /\ Hits(DeclaredKeywords(args.rules), norm) = {} =>
                       PatternSearch(merchant_tokens(k2c), norm) = ""
                /\ (\A c \in 1..Len(args.rules) : args.rules[c].cat # "") =>
                       txns[i].category =
                           ScanOnlyCategory(before[i], args.rules, args.default_category)

----------------------------------------------------------------------------
(* Invariants of the records of detect_recurring.                           *)

\* C27: for min_months >= 1, every record belongs to a group and has
\* min_months <= count <= number of distinct months of the group, its
\* typical amount lies within max(|m| * tolerance, 1.0) of the group's
\* median m, up to the 0.005 of the rounding to 2 decimals, and no two
\* records of a result have the same display description.
C27_RecordInvariants ==
    (RecDone /\ args.min_months >= 1) =>
        LET view == GroupView(args.tolerance)
        IN  /\ \A n \in 1..Len(result.value) :
                  \E g \in DOMAIN view :
                     /\ n \in view[g].records
                     /\ args.min_months <= result.value[n].count
                     /\ result.value[n].count <= Cardinality(view[g].months)
                     /\ Abs(400 * result.value[n].typical - 100 * view[g].med4)
                           <= Max2(Abs(view[g].med4) * args.tolerance, 400000) + 2000
            /\ \A n, k \in 1..Len(result.value) :
                  n # k => result.value[n].display # result.value[k].display

\* Two records; one of them leaves out a month of its group and its typical
\* amount is not the median.
C27_Witness ==
    /\ RecDone /\ args.min_months >= 1
    /\ Len(result.value) = 2
    /\ LET view == GroupView(args.tolerance)
       IN  \E g \in DOMAIN view : \E n \in view[g].records :
              /\ result.value[n].count < Cardinality(view[g].months)
              /\ 4 * result.value[n].typical # view[g].med4

----------------------------------------------------------------------------
(* The pipelines that call build_summary: cli.main and webapp.index.        *)

\* The printable ASCII characters in code order (the grave accent left out)
Ascii ==
    " !\"#$%&'()*+,-./0123456789:;<=>?@ABCDEFGHIJKLMNOPQRSTUVWXYZ[\\]^_abcdefghijklmnopqrstuvwxyz{|}~"

OrdOf ==
    [c \in {SubSeq(Ascii, i, i) : i \in 1..Len(Ascii)} |->
        CHOOSE i \in 1..Len(Ascii) : SubSeq(Ascii, i, i) = c]

Ord(c) == OrdOf[c]

\* Python: a < b on str
RECURSIVE StrLess(_, _)
StrLess(a, b) ==
    IF b = "" THEN FALSE
    ELSE IF a = "" THEN TRUE
    ELSE IF Head(a) = Head(b) THEN StrLess(Tail(a), Tail(b))
    ELSE Ord(Head(a)) < Ord(Head(b))

\* Python: a <= b on datetime.date
DateOrdinal(d) == (d.year * 100 + d.month) * 100 + d.day

\* (a.date, a.description, a.amount) <= (b.date, b.description, b.amount)
SortKeyLE(a, b) ==
    \/ DateOrdinal(a.date) < DateOrdinal(b.date)
    \/ /\ a.date = b.date
       /\ \/ StrLess(a.description, b.description)
          \/ a.description = b.description /\ a.amount <= b.amount

\* the list left in the order in which the rows were read
KeepOrder(list) == list

\* list.sort(key=lambda t: (t.date, t.description, t.amount)), a stable sort
RECURSIVE SortTxns(_)
SortTxns(list) ==
    IF Len(list) = 0 THEN <<>>
    ELSE LET front == SortTxns(SubSeq(list, 1, Len(list) - 1))
             x     == list[Len(list)]
             k     == Cardinality({i \in 1..Len(front) : SortKeyLE(front[i], x)})
         IN  SubSeq(front, 1, k) \o <<x>> \o SubSeq(front, k + 1, Len(front))

\* load_csv_files, on the rows of the files in reading order
load_csv_files(rows) == SortTxns(rows)

\* cli.main: "if dfrom or dto: txns = [t for t in txns if ...]"; <<>> stands
\* for an option that was not given
DateFilter(list, dfrom, dto) ==
    LET Keep(t) == /\ dfrom = <<>> \/ DateOrdinal(t.date) >= DateOrdinal(dfrom[1])
                   /\ dto = <<>> \/ DateOrdinal(t.date) <= DateOrdinal(dto[1])
    IN  SelectSeq(list, Keep)

_month_floor(value) == Date(value.year, value.month, 1)

\* _subtract_months: the first day of the month "months" months earlier
_subtract_months(value, months) ==
    LET idx == value.year * 12 + (value.month - 1) - months
    IN  Date(idx \div 12, (idx % 12) + 1, 1)

\* _filter_recent_transactions(txns, months), months > 0
_filter_recent_transactions(list, months) ==
    IF Len(list) = 0 THEN list
    ELSE LET latest == CHOOSE d \in {list[i].date : i \in 1..Len(list)} :
                          \A i \in 1..Len(list) : DateOrdinal(list[i].date) <= DateOrdinal(d)
             start_boundary == _subtract_months(_month_floor(latest), months - 1)
             Recent(t) == DateOrdinal(t.date) >= DateOrdinal(start_boundary)
         IN  SelectSeq(list, Recent)

----------------------------------------------------------------------------
(* Inputs of the pipeline specification: the rows as the files and the      *)
(* session hold them, in any order, over three months of which the last is  *)
(* three months after the second.                                           *)

MaxPipeTxns == 3

May5 == Date(2024, 5, 5)

PipeTxns ==
    {Transaction(d, s, -10000, "") : d \in {Jan5, Feb5, May5}, s \in {"Kroger", "Uber"}}
    \cup {Transaction(Feb5, "Payroll", 5000, "")}

PipeClocks == {Date(2024, 6, 15)}

PipeBudgets ==
    {<<>>, <<BudgetItem("Groceries", Limit(400000)), BudgetItem("Transport", Limit(50000))>>}

PipeDateFrom == {<<>>, <<Date(2024, 2, 1)>>}

\* the range filters last_3 and last_6
PipeRanges == {3, 6}

InitPipeline ==
    /\ txns \in SeqsUpTo(PipeTxns, MaxPipeTxns)
    /\ op = "init"
    /\ args = NoArgs
    /\ before = <<>>
    /\ result = <<>>

\* cli.main: load and sort, filter by date, categorize, build the summary.
\* txns is main's local list, before the rows as read.
CliMain(budgets, clock, dfrom) ==
    /\ op = "init"
    /\ LET loaded      == load_csv_files(txns)
           filtered    == DateFilter(loaded, dfrom, <<>>)
           categorized == Materialize(categorize_transactions(filtered, DEFAULT_RULES, "Other"))
       IN  /\ txns' = categorized
           /\ result' = build_summary(categorized, budgets, clock)
    /\ before' = txns
    /\ op' = "main"
    /\ args' = [budgets |-> budgets, clock |-> clock]

\* webapp.index and api_summary: sort all transactions, categorize, apply
\* the range filter, build the summary. txns is filtered_txns.
WebIndex(budgets, clock, months) ==
    /\ op = "init"
    /\ LET all_txns    == SortTxns(txns)
           categorized == Materialize(categorize_transactions(all_txns, DEFAULT_RULES, "Other"))
           filtered    == _filter_recent_transactions(categorized, months)
       IN  /\ txns' = filtered
           /\ result' = build_summary(filtered, budgets, clock)
    /\ before' = txns
    /\ op' = "index"
    /\ args' = [budgets |-> budgets, clock |-> clock]

NextPipeline ==
    \/ \E budgets \in PipeBudgets, clock \in PipeClocks, dfrom \in PipeDateFrom :
           CliMain(budgets, clock, dfrom)
    \/ \E budgets \in PipeBudgets, clock \in PipeClocks, months \in PipeRanges :
           WebIndex(budgets, clock, months)

SpecPipeline == InitPipeline /\ [][NextPipeline]_vars

----------------------------------------------------------------------------
(* Claims about the pipelines.                                              *)

PipelineDone == op \in {"main", "index"}

\* The earliest calendar month present in the list given to build_summary
EarliestMonth == CHOOSE m \in {CalMonth(i) : i \in 1..Len(txns)} :
                    \A i \in 1..Len(txns) : m <= CalMonth(i)

\* The expenses of a category dated in a calendar month, in mills
SpendIn(cat, m) ==
    SumSeq([i \in 1..Len(txns) |->
        IF txns[i].amount < 0 /\ txns[i].category = cat /\ CalMonth(i) = m
        THEN -txns[i].amount ELSE 0])

----------------------------------------------------------------------------
(* The web session of webapp.index. The session holds the manual and        *)
(* uploaded transactions as entries, the budgets and the account list.      *)
(* data_loader.DEFAULT_ACCOUNT and load_csv_stream, which webapp imports,   *)
(* are not in the source tree: the default account is the "unspecified"     *)
(* sentinel of the specification, and an upload is the list of rows the     *)
(* loader returns, each with an account or none.                            *)

DEFAULT_ACCOUNT == "Unspecified"

\* _normalize_account_name; "" stands for None and for the empty string
_normalize_account_name(value) ==
    IF Strip(value) = "" THEN DEFAULT_ACCOUNT ELSE Strip(value)

\* "for x in names: if x not in ordered: ordered.append(x)"
RECURSIVE Dedupe(_)
Dedupe(names) ==
    IF Len(names) = 0 THEN <<>>
    ELSE LET front == Dedupe(SubSeq(names, 1, Len(names) - 1))
             x     == names[Len(names)]
         IN  IF x \in Range(front) THEN front ELSE Append(front, x)

\* sorted(S) on a set of str
SortedStrings(S) ==
    Materialize([n \in 1..Cardinality(S) |->
        CHOOSE x \in S : Cardinality({y \in S : y = x \/ StrLess(y, x)}) = n])

\* _sort_accounts
_sort_accounts(accounts) ==
    LET ordered == Dedupe(Materialize(
                       [i \in 1..Len(accounts) |-> _normalize_account_name(accounts[i])]))
    IN  IF DEFAULT_ACCOUNT \in Range(ordered)
        THEN <<DEFAULT_ACCOUNT>> \o SortedStrings(Range(ordered) \ {DEFAULT_ACCOUNT})
        ELSE SortedStrings(Range(ordered))

\* _get_session_accounts: the list it returns and stores, raw being the
\* list found in the session
_get_session_accounts(raw) ==
    LET accounts == Dedupe(Materialize(
                        [i \in 1..Len(raw) |-> _normalize_account_name(raw[i])]))
    IN  IF DEFAULT_ACCOUNT \in Range(accounts) THEN accounts
        ELSE <<DEFAULT_ACCOUNT>> \o accounts

\* _store_session_accounts: the list it stores
_store_session_accounts(accounts) ==
    LET cleaned == _sort_accounts(accounts)
    IN  IF DEFAULT_ACCOUNT \in Range(cleaned) THEN cleaned
        ELSE <<DEFAULT_ACCOUNT>> \o cleaned

\* the account list left untouched
_ensure_account_never_adds(stored, name) == stored

\* _ensure_account: the account list in the session after the call
_ensure_account(stored, name) ==
    LET account  == _normalize_account_name(name)
        accounts == _get_session_accounts(stored)
    IN  IF account \notin Range(accounts)
        THEN _store_session_accounts(Append(accounts, account))
        ELSE accounts

----------------------------------------------------------------------------
(* Form values. Only the shapes the inputs below use are told apart: a date *)
(* is YYYY-MM-DD or invalid, a number is an optional sign, digits and an    *)
(* optional fraction of up to three digits, or invalid.                     *)

DigitString == "0123456789"

DigitValOf ==
    [c \in Digits |-> (CHOOSE i \in 1..10 : SubSeq(DigitString, i, i) = c) - 1]

DigitVal(c) == DigitValOf[c]

IsDigits(s) == s # "" /\ \A i \in 1..Len(s) : SubSeq(s, i, i) \in Digits

RECURSIVE ToNat(_)
ToNat(s) ==
    IF s = "" THEN 0
    ELSE 10 * ToNat(SubSeq(s, 1, Len(s) - 1)) + DigitVal(SubSeq(s, Len(s), Len(s)))

DaysIn(y, m) ==
    IF m = 2 THEN (IF (y % 4 = 0 /\ y % 100 # 0) \/ y % 400 = 0 THEN 29 ELSE 28)
    ELSE IF m \in {4, 6, 9, 11} THEN 30 ELSE 31

\* dt.date.fromisoformat(s): <<date>>, or <<>> for ValueError
fromisoformat(s) ==
    IF /\ Len(s) = 10
       /\ SubSeq(s, 5, 5) = "-" /\ SubSeq(s, 8, 8) = "-"
       /\ IsDigits(SubSeq(s, 1, 4)) /\ IsDigits(SubSeq(s, 6, 7)) /\ IsDigits(SubSeq(s, 9, 10))
    THEN LET y == ToNat(SubSeq(s, 1, 4))
             m == ToNat(SubSeq(s, 6, 7))
             d == ToNat(SubSeq(s, 9, 10))
         IN  IF y >= 1 /\ m \in 1..12 /\ d \in 1..DaysIn(y, m)
             THEN <<Date(y, m, d)>> ELSE <<>>
    ELSE <<>>

RECURSIVE NatToStr(_)
NatToStr(n) ==
    IF n < 10 THEN SubSeq(DigitString, n + 1, n + 1)
    ELSE NatToStr(n \div 10) \o SubSeq(DigitString, (n % 10) + 1, (n % 10) + 1)

RECURSIVE ZeroPad(_, _)
ZeroPad(s, width) == IF Len(s) >= width THEN s ELSE ZeroPad("0" \o s, width)

\* date.isoformat()
isoformat(d) ==
    ZeroPad(NatToStr(d.year), 4) \o "-" \o ZeroPad(NatToStr(d.month), 2)
        \o "-" \o ZeroPad(NatToStr(d.day), 2)

\* float(s) in mills: <<value>>, or <<>> for ValueError
float(s) ==
    LET body  == IF s # "" /\ Head(s) \in {"+", "-"} THEN Tail(s) ELSE s
        dots  == {i \in 1..Len(body) : SubSeq(body, i, i) = "."}
        dot   == IF dots = {} THEN Len(body) + 1 ELSE CHOOSE i \in dots : TRUE
        whole == SubSeq(body, 1, dot - 1)
        frac  == SubSeq(body, dot + 1, Len(body))
        sign  == IF s # "" /\ Head(s) = "-" THEN -1 ELSE 1
    IN  IF /\ Cardinality(dots) <= 1
           /\ Len(frac) <= 3
           /\ whole = "" \/ IsDigits(whole)
           /\ frac = "" \/ IsDigits(frac)
           /\ whole # "" \/ frac # ""
        THEN <<sign * (1000 * ToNat(whole) + ToNat(SubSeq(frac \o "000", 1, 3)))>>
        ELSE <<>>

----------------------------------------------------------------------------
(* webapp.index. In the session specification txns is                       *)
(* session["pfa_transactions"], result holds the rest of the session        *)
(* (accounts, budgets), the errors of the last request, whether it ended in *)
(* a redirect, and the number of ids issued; before is the session as the   *)
(* last request found it, args is the form of the last request. The app is  *)
(* created without input files (app = create_app()).                        *)

\* Bounds of the session specification: the ids issued and the entries held
MaxIds == 2

MaxSessionTxns == 2

\* an entry of session["pfa_transactions"]
Entry(id, date, description, amount, account, source) ==
    [id |-> id, date |-> date, description |-> description, amount |-> amount,
     account |-> account, kind |-> IF amount >= 0 THEN "income" ELSE "expense",
     source |-> source]

\* uuid.uuid4().hex: an id never issued before, n ids having been issued
NewId(n) == NatToStr(n + 1)

\* _get_session_transactions: the cleaned entries (every stored amount is a
\* number and every stored entry a dict)
_get_session_transactions(raw) ==
    Materialize([i \in 1..Len(raw) |->
        [raw[i] EXCEPT !.description = Strip(@), !.account = Strip(@)]])

RECURSIVE EnsureAll(_, _)
EnsureAll(stored, names) ==
    IF Len(names) = 0 THEN stored
    ELSE EnsureAll(_ensure_account(stored, Head(names)), Tail(names))

\* The part of index that runs when no action redirects (lines 626-751), as
\* far as it writes the session: every transaction's account is ensured and
\* the sorted account order is stored. Entries with a date that does not
\* parse are left out by _entries_to_transactions.
RenderAccounts(stored, entries) ==
    LET HasDate(e) == e.date # "" /\ fromisoformat(e.date) # <<>>
        session_txns == SelectSeq(entries, HasDate)
        names == Materialize([i \in 1..Len(session_txns) |-> session_txns[i].account])
        session_accounts == _get_session_accounts(EnsureAll(stored, names))
    IN  _store_session_accounts(
            session_accounts
                \o Materialize([i \in 1..Len(names) |-> _normalize_account_name(names[i])]))

\* The session as index finds it
FoundSession ==
    [txns |-> _get_session_transactions(txns),
     accounts |-> _get_session_accounts(result.accounts),
     budgets |-> result.budgets]

\* The end of a request: the session it leaves
Respond(action, form, entries, accounts, budgets, errors, redirect, issued) ==
    /\ txns' = entries
    /\ result' = [accounts |-> IF redirect THEN accounts
                               ELSE RenderAccounts(accounts, entries),
                  budgets |-> budgets, errors |-> errors, redirect |-> redirect,
                  issued |-> issued]
    /\ before' = FoundSession
    /\ op' = action
    /\ args' = form

\* the errors of the manual form (lines 425-445)
ManualErrors(manual_form) ==
    (IF manual_form.date = "" THEN {"Date is required."} ELSE {})
    \cup (IF manual_form.description = "" THEN {"Description is required."} ELSE {})
    \cup (IF manual_form.amount = "" THEN {"Amount is required."} ELSE {})
    \cup (IF fromisoformat(manual_form.date) = <<>>
          THEN {"Date must be in YYYY-MM-DD format."} ELSE {})
    \cup (IF float(manual_form.amount) = <<>>
          THEN {"Amount must be a valid number."} ELSE {})
    \cup (IF float(manual_form.amount) = <<0>> THEN {"Amount cannot be zero."} ELSE {})

\* action add_manual or save_edit (lines 413-493)
SubmitManual(action, form) ==
    LET found == FoundSession
        manual_form ==
            [date |-> Strip(form.date),
             description |-> Strip(form.description),
             amount |-> Strip(form.amount),
             account |-> Strip(IF form.account # "" THEN form.account
                               ELSE found.accounts[1]),
             kind |-> form.kind]
        tx_type  == IF manual_form.kind \in {"income", "expense"}
                    THEN manual_form.kind ELSE "expense"
        errors   == ManualErrors(manual_form)
        date_value == fromisoformat(manual_form.date)
        parsed   == float(manual_form.amount)
        amount_value ==
            IF parsed = <<>> THEN <<>>
            ELSE IF tx_type = "income" THEN <<Abs(parsed[1])>> ELSE <<-Abs(parsed[1])>>
        accounts == _ensure_account(found.accounts, manual_form.account)
        account_value == _normalize_account_name(manual_form.account)
        ok       == errors = {} /\ date_value # <<>> /\ amount_value # <<>>
        hit      == {i \in 1..Len(found.txns) : found.txns[i].id = form.transaction_id}
        first    == CHOOSE i \in hit : \A j \in hit : i <= j
    IN  IF ok /\ action = "add_manual"
        THEN /\ result.issued < MaxIds /\ Len(txns) < MaxSessionTxns
             /\ Respond(action, form,
                    Append(found.txns,
                           Entry(NewId(result.issued), isoformat(date_value[1]),
                                 manual_form.description, amount_value[1],
                                 account_value, "manual")),
                    accounts, found.budgets, {}, TRUE, result.issued + 1)
        ELSE IF ok /\ hit # {}
        THEN Respond(action, form,
                 [found.txns EXCEPT ![first] =
                     [@ EXCEPT !.date = isoformat(date_value[1]),
                               !.description = manual_form.description,
                               !.amount = amount_value[1],
                               !.account = account_value,
                               !.kind = IF amount_value[1] >= 0 THEN "income" ELSE "expense"]],
                 accounts, found.budgets, {}, TRUE, result.issued)
        ELSE Respond(action, form, found.txns, accounts, found.budgets,
                 IF ok THEN {"Unable to update the selected transaction."} ELSE errors,
                 FALSE, result.issued)

AddManual(form) == SubmitManual("add_manual", form)

SaveEdit(form) == SubmitManual("save_edit", form)

\* action delete_transaction (lines 495-502)
DeleteTransaction(form) ==
    LET found == FoundSession
        Other(e) == e.id # form.transaction_id
        next_entries == SelectSeq(found.txns, Other)
    IN  IF Len(next_entries) = Len(found.txns)
        THEN Respond("delete_transaction", form, found.txns, found.accounts, found.budgets,
                     {"Unable to remove the selected transaction."}, FALSE, result.issued)
        ELSE Respond("delete_transaction", form, next_entries, found.accounts,
                     found.budgets, {}, TRUE, result.issued)

\* action clear_transactions (lines 504-506)
ClearTransactions(form) ==
    Respond("clear_transactions", form, <<>>, FoundSession.accounts,
            FoundSession.budgets, {}, TRUE, result.issued)

\* The entries of an upload (lines 526-541): every row's account is ensured
RECURSIVE UploadRows(_, _, _, _)
UploadRows(rows, chosen_account, accounts, issued) ==
    IF Len(rows) = 0 THEN [entries |-> <<>>, accounts |-> accounts]
    ELSE LET txn  == Head(rows)
             name == IF txn.account # "" THEN txn.account
                     ELSE IF chosen_account # "" THEN chosen_account
                     ELSE DEFAULT_ACCOUNT
             rest == UploadRows(Tail(rows), chosen_account,
                                _ensure_account(accounts, name), issued + 1)
         IN  [entries |-> <<Entry(NewId(issued), isoformat(txn.date), txn.description,
                                  txn.amount, _normalize_account_name(name), "upload")>>
                          \o rest.entries,
              accounts |-> rest.accounts]

\* action upload_csv (lines 508-543); form.file is "" for no file, "bad" for
\* a file load_csv_stream rejects, "rows" for one it reads as form.rows
UploadCsv(form) ==
    LET found  == FoundSession
        choice == IF form.upload_account = "" THEN "detect" ELSE form.upload_account
        accounts == IF choice = "detect" THEN found.accounts
                    ELSE _ensure_account(found.accounts, choice)
        chosen_account == IF choice = "detect" THEN ""
                          ELSE _normalize_account_name(choice)
        up == UploadRows(form.rows, chosen_account, accounts, result.issued)
    IN  IF form.file = ""
        THEN Respond("upload_csv", form, found.txns, found.accounts, found.budgets,
                     {"Please choose a CSV file to upload."}, FALSE, result.issued)
        ELSE IF form.file = "bad"
        THEN Respond("upload_csv", form, found.txns, accounts, found.budgets,
                     {"ValueError"}, FALSE, result.issued)
        ELSE /\ result.issued + Len(form.rows) <= MaxIds
             /\ Len(txns) + Len(form.rows) <= MaxSessionTxns
             /\ Respond("upload_csv", form, found.txns \o up.entries, up.accounts,
                        found.budgets, {}, TRUE, result.issued + Len(form.rows))

\* session_budgets[category] = limit_value on a dict in insertion order
SetBudget(budgets, category, limit_value) ==
    IF \E n \in 1..Len(budgets) : budgets[n].category = category
    THEN Materialize([n \in 1..Len(budgets) |->
            IF budgets[n].category = category
            THEN BudgetItem(category, Limit(limit_value)) ELSE budgets[n]])
    ELSE Append(budgets, BudgetItem(category, Limit(limit_value)))

\* action add_budget (lines 545-562)
AddBudget(form) ==
    LET found == FoundSession
        category == Strip(form.budget_category)
        limit_value == float(Strip(form.budget_limit))
        errors ==
            (IF category = "" THEN {"Budget category is required."} ELSE {})
            \cup (IF limit_value = <<>> THEN {"Budget limit must be a valid number."}
                  ELSE IF limit_value[1] <= 0
                  THEN {"Budget limit must be greater than zero."} ELSE {})
    IN  IF errors = {} /\ limit_value # <<>>
        THEN Respond("add_budget", form, found.txns, found.accounts,
                     SetBudget(found.budgets, category, limit_value[1]), {}, TRUE,
                     result.issued)
        ELSE Respond("add_budget", form, found.txns, found.accounts, found.budgets,
                     errors, FALSE, result.issued)

\* action remove_budget (lines 564-571)
RemoveBudget(form) ==
    LET found == FoundSession
        Other(b) == b.category # form.budget_category
    IN  IF \E n \in 1..Len(found.budgets) : found.budgets[n].category = form.budget_category
        THEN Respond("remove_budget", form, found.txns, found.accounts,
                     SelectSeq(found.budgets, Other), {}, TRUE, result.issued)
        ELSE Respond("remove_budget", form, found.txns, found.accounts, found.budgets,
                     {"Unable to remove the selected budget."}, FALSE, result.issued)

\* action add_account (lines 573-586)
AddAccount(form) ==
    LET found == FoundSession
        account_name == Strip(form.account_name)
        normalized == _normalize_account_name(account_name)
    IN  IF account_name = ""
        THEN Respond("add_account", form, found.txns, found.accounts, found.budgets,
                     {"Account name is required."}, FALSE, result.issued)
        ELSE IF normalized \in Range(found.accounts)
        THEN Respond("add_account", form, found.txns, found.accounts, found.budgets,
                     {"That account already exists."}, FALSE, result.issued)
        ELSE Respond("add_account", form, found.txns,
                     _store_session_accounts(Append(found.accounts, normalized)),
                     found.budgets, {}, TRUE, result.issued)

\* action delete_account (lines 588-624), without input files
DeleteAccount(form) ==
    LET found == FoundSession
        normalized == _normalize_account_name(Strip(form.account_name))
        in_use_session ==
            \E i \in 1..Len(found.txns) :
                _normalize_account_name(found.txns[i].account) = normalized
        Other(acc) == acc # normalized
        Reject(msg) == Respond("delete_account", form, found.txns, found.accounts,
                               found.budgets, {msg}, FALSE, result.issued)
    IN  IF normalized = DEFAULT_ACCOUNT THEN Reject("Cannot delete the default account.")
        ELSE IF normalized \notin Range(found.accounts)
        THEN Reject("Unable to find the selected account.")
        ELSE IF in_use_session
        THEN Reject("Cannot delete an account that has transactions.")
        ELSE IF Len(found.accounts) <= 1 THEN Reject("At least one account must remain.")
        ELSE Respond("delete_account", form, found.txns,
                     _store_session_accounts(SelectSeq(found.accounts, Other)),
                     found.budgets, {}, TRUE, result.issued)

\* GET /, as after a redirect
IndexGet(form) ==
    Respond("get", form, FoundSession.txns, FoundSession.accounts,
            FoundSession.budgets, {}, FALSE, result.issued)

----------------------------------------------------------------------------
(* Inputs of the session specification: the forms a client posts.           *)

ManualForm(date, description, amount, account, kind, transaction_id) ==
    [date |-> date, description |-> description, amount |-> amount,
     account |-> account, kind |-> kind, transaction_id |-> transaction_id]

\* forms that pass validation
GoodManualForms ==
    {ManualForm("2024-01-05", " Lunch ", "12.5", acc, "expense", "1") : acc \in {"", " Visa "}}
    \cup {ManualForm("2024-01-05", " Lunch ", "12.5", "", "transfer", "1")}

\* forms with one field missing or malformed
BadManualForms ==
    {ManualForm(f[1], f[2], f[3], acc, "expense", "1") :
        f \in {<<"", "Lunch", "12.5">>, <<"01/05/2024", "Lunch", "12.5">>,
               <<"2024-01-05", "  ", "12.5">>, <<"2024-01-05", "Lunch", "">>,
               <<"2024-01-05", "Lunch", "abc">>, <<"2024-01-05", "Lunch", "0">>},
        acc \in {" Visa "}}
    \cup {ManualForm("", "Lunch", "12.5", "", "expense", "1")}

ManualForms == GoodManualForms \cup BadManualForms

\* edits of an entry that exists or does not, valid or with a missing date
EditForms ==
    {ManualForm("2024-02-05", "Dinner", "7", "Visa", "income", id) : id \in {"1", "7"}}
    \cup {ManualForm("", "Dinner", "7", "Visa", "income", "1")}

IdForms == {[transaction_id |-> id] : id \in {"1", "7"}}

NoForm == [action |-> ""]

UploadRow(account) ==
    [date |-> Feb5, description |-> "Kroger", amount |-> -10000, account |-> account]

UploadForms ==
    {[file |-> "", upload_account |-> "", rows |-> <<>>],
     [file |-> "bad", upload_account |-> "Amex", rows |-> <<>>]}
    \cup {[file |-> "rows", upload_account |-> f[1], rows |-> <<UploadRow(f[2])>>] :
            f \in {<<"", "">>, <<"Visa", "">>, <<"Visa", "Amex">>}}

BudgetForms ==
    {[budget_category |-> "Food", budget_limit |-> l] : l \in {"100", "much"}}
    \cup {[budget_category |-> " ", budget_limit |-> "100"]}

AccountForms == {[account_name |-> n] : n \in {"", " Visa ", DEFAULT_ACCOUNT}}

\* a client with an empty session
InitSession ==
    /\ txns = <<>>
    /\ op = "init"
    /\ args = NoArgs
    /\ before = [txns |-> <<>>, accounts |-> <<>>, budgets |-> <<>>]
    /\ result = [accounts |-> <<>>, budgets |-> <<>>, errors |-> {},
                 redirect |-> FALSE, issued |-> 0]

NextSession ==
    \/ \E form \in ManualForms : AddManual(form)
    \/ \E form \in EditForms : SaveEdit(form)
    \/ \E form \in IdForms : DeleteTransaction(form)
    \/ ClearTransactions(NoForm)
    \/ \E form \in UploadForms : UploadCsv(form)
    \/ \E form \in BudgetForms : AddBudget(form)
    \/ \E form \in {[budget_category |-> "Food"]} : RemoveBudget(form)
    \/ \E form \in AccountForms : AddAccount(form)
    \/ \E form \in AccountForms : DeleteAccount(form)
    \/ IndexGet(NoForm)

SpecSession == InitSession /\ [][NextSession]_vars

----------------------------------------------------------------------------
(* Claims about the web session.                                            *)

\* a request has been handled
Requested == op # "init"

\* C29: after any sequence of add_manual, save_edit, delete_transaction,
\* clear_transactions, upload_csv, add_account and delete_account (and of
\* the other requests), the default account is in the session's account
\* list and so is the normalized account of every stored transaction; a
\* delete_account naming the default account or an account a stored
\* transaction references is rejected and removes nothing.
C29_AccountsCoverTransactions ==
    Requested =>
        /\ DEFAULT_ACCOUNT \in Range(result.accounts)
        /\ \A i \in 1..Len(txns) :
               _normalize_account_name(txns[i].account) \in Range(result.accounts)
        /\ op = "delete_account" =>
               LET name == _normalize_account_name(args.account_name)
               IN  (name = DEFAULT_ACCOUNT
                    \/ \E i \in 1..Len(before.txns) :
                          _normalize_account_name(before.txns[i].account) = name)
                   => /\ ~result.redirect /\ result.errors # {}
                      /\ Range(before.accounts) \subseteq Range(result.accounts)

\* delete_account was rejected for an account, not the default one, that a
\* stored transaction references.
C29_Witness ==
    /\ op = "delete_account"
    /\ _normalize_account_name(args.account_name) # DEFAULT_ACCOUNT
    /\ \E i \in 1..Len(txns) :
          _normalize_account_name(txns[i].account) = _normalize_account_name(args.account_name)
    /\ result.errors = {"Cannot delete an account that has transactions."}
    /\ Len(result.accounts) > 1

\* The form of the last request fails the validation of the manual form:
\* missing or malformed date, missing description, missing, non-numeric or
\* zero amount.
FailsValidation ==
    /\ op \in {"add_manual", "save_edit"}
    /\ \/ Strip(args.date) = "" \/ fromisoformat(Strip(args.date)) = <<>>
       \/ Strip(args.description) = ""
       \/ Strip(args.amount) = "" \/ float(Strip(args.amount)) \in {<<>>, <<0>>}

\* C30: an add_manual or save_edit submission that fails validation leaves
\* the whole session unchanged: the stored transactions, the budgets and the
\* account list are the same as before the request.
C30_FailedSubmissionChangesNothing ==
    FailsValidation =>
        /\ txns = before.txns
        /\ result.budgets = before.budgets
        /\ result.accounts = before.accounts

\* C30, as the code has it: a failed submission leaves the transactions and
\* the budgets unchanged and reports an error, no account is removed, and
\* the account named in the form is in the account list afterwards.
C30_FailedSubmissionAddsAccount ==
    FailsValidation =>
        /\ txns = before.txns
        /\ result.budgets = before.budgets
        /\ result.errors # {} /\ ~result.redirect
        /\ Range(before.accounts) \subseteq Range(result.accounts)
        /\ Range(result.accounts) \ Range(before.accounts)
               \subseteq {_normalize_account_name(args.account)}

====
